---- MODULE Spec2Model ----
(***************************************************************************)
(* Country aggregation engine of climate-resilience-pipeline:              *)
(*   data_ingest/fetch_climate.py  compute_country_annual_means_from_years *)
(*   utils/geo_utils.py            nearest_cell_fallback,                  *)
(*                                 sanitize_countries, build_regions       *)
(*                                                                         *)
(* Numbers.  Temperatures are kept in hundredths of a degree, and every    *)
(* mean is an exact fraction <<n, d>> in lowest terms (d > 0): the model   *)
(* follows the order of the reductions of the code, not float rounding.    *)
(* Grid cells are named by their flat row-major index idx in               *)
(* 0 .. NLat*NLon-1, as np.ravel names them: ilat = idx \div NLon and      *)
(* ilon = idx % NLon.                                                      *)
(***************************************************************************)
EXTENDS Integers, Sequences, FiniteSets, TLC

\* ---------------------------------------------------------------- bounds
NLat == 2            \* latitude rows of the grid
NLon == 2            \* longitude columns of the grid
StepsPerFile == 2    \* time steps of one raw yearly file
NumYears == 2        \* years processed by one run
MaxRegions == 2      \* rows of the sanitized polygon table

\* ================================================================= state
VARIABLES
    entry,              \* which entry point is exercised: "run", "fallback", ...
    pc,                 \* position in the code
    gdf_clean,          \* sanitized polygon table (rows of name, geometry)
    batch_size,         \* regions rasterized at once
    years,              \* the years argument
    raw,                \* RAW_ERA5_DIR: time axis of the raw file of each year
    partition,          \* PROC_ANNUAL_TEMP_PART_TEMPLATE.format(year): part.parquet
    tmp_file,           \* f"{final_path}.tmp"
    audit_csv,          \* FALLBACK_AUDIT_CSV
    preview_csv,        \* PREVIEW_CSV_TEMPLATE
    yi,                 \* index of the current year in years
    ds,                 \* the open dataset (ds / ds_renamed), NoDs when closed
    i,                  \* batch loop index
    year_results,       \* frames of the batches so far
    df_year,            \* direct rows of the year
    missing_countries,  \* names handed to the fallback
    fb_k,               \* position in missing_countries
    rows,               \* nearest_cell_fallback: frames of accepted countries
    audit,              \* nearest_cell_fallback: audit entries
    dists,              \* nearest_cell_fallback: distance vector of the pass
    fb_df,              \* records returned by the fallback
    audit_df,           \* audit entries returned by the fallback
    final_year,         \* merged record set of the year
    n_partitions,       \* partitions written by the run
    preview_frames,     \* record sets written by the run
    audit_frames,       \* audit frames collected by the run
    san,                \* sanitize_countries: its arguments, locals and position
    time_name,          \* name of the time axis of the raw files
    partition0,         \* the partitions as the first invocation found them
    previous,           \* how the previous invocation ended, and the files it left
    writer,             \* invocations writing the same partition at the same time
    fetch,              \* ensure_era5_files: the raw files, its locals and position
    pub                 \* publish: the files it reads and writes, locals and position

\* ------------------------------------------------------ program constants
FALLBACK_MAX_KM == 25      \* config.py: FALLBACK_MAX_KM = 25.0
KELVIN_OFFSET == 27315     \* fetch_climate.py: ds[TEMP_VAR] - 273.15 (hundredths)

\* config.py: AREA_WEIGHTING = True; the masker on its own is also entered
\* with the flag off
AREA_WEIGHTING == entry # "unweighted"

NCells == NLat * NLon
CellIdx == 0 .. (NCells - 1)
Years == 1 .. NumYears
Names == {"A", "B"}
\* lexicographic order of the country names (Python str comparison)
NameRank(n) == IF n = "A" THEN 1 ELSE IF n = "B" THEN 2 ELSE 3

\* ------------------------------------------------------------- fractions
RECURSIVE Gcd(_, _)
Gcd(a, b) == IF b = 0 THEN a ELSE Gcd(b, a % b)

Abs(x) == IF x < 0 THEN -x ELSE x

\* n/d in lowest terms, d > 0
Frac(n, d) ==
    LET g == Gcd(Abs(n), Abs(d))
        s == IF d < 0 THEN -1 ELSE 1
    IN  <<(s * n) \div g, (s * d) \div g>>

FracAdd(x, y) == Frac(x[1] * y[2] + y[1] * x[2], x[2] * y[2])

RECURSIVE FracSum(_)
FracSum(s) == IF s = <<>> THEN <<0, 1>> ELSE FracAdd(Head(s), FracSum(Tail(s)))

\* arithmetic mean of a non-empty sequence of fractions (Series.mean)
FracMean(s) == LET t == FracSum(s) IN Frac(t[1], t[2] * Len(s))

\* ------------------------------------------------------ sequence helpers
RECURSIVE Flatten(_)
Flatten(ss) == IF ss = <<>> THEN <<>> ELSE Head(ss) \o Flatten(Tail(ss))

Range(s) == {s[k] : k \in 1 .. Len(s)}

Min(a, b) == IF a < b THEN a ELSE b

\* ------------------------------------------------------------ data model
\* np.nan in the audit columns a status does not fill
NaN == -1

\* Latitude / longitude coordinate arrays of the grid (degrees), by index
Lats == [ilat \in 0 .. (NLat - 1) |-> 10 * ilat]
Lons == [ilon \in 0 .. (NLon - 1) |-> 10 * ilon + 5]

\* np.cos(np.deg2rad(lat)) in thousandths, for the latitudes 0, 10, 20, ...
CosMilli == <<1000, 985, 940, 866, 766, 643>>
coslat(ilat) == CosMilli[(Lats[ilat] \div 10) + 1]

\* A geometry of the polygon table.  empty: null or empty geometry; cells: the
\* grid cells whose centre lies inside the polygon (what mask_3D rasterizes);
\* c1, c2, km: where its representative point lies relative to the grid: km
\* from cells c1 and c2 (the same cell, or two cells that tie), farther from
\* every other cell.
Geom(empty, cells, c1, c2, km) ==
    [empty |-> empty, cells |-> cells, c1 |-> c1, c2 |-> c2, km |-> km]

EmptyGeom == Geom(TRUE, {}, 0, 0, 0)

DistVals == {FALLBACK_MAX_KM - 1, FALLBACK_MAX_KM, FALLBACK_MAX_KM + 1}

\* every geometry nearest_cell_fallback is exercised with
AllGeoms ==
    {EmptyGeom} \cup
    {Geom(FALSE, {}, c1, c2, km) : c1 \in CellIdx, c2 \in CellIdx, km \in DistVals}

\* the polygon shapes a run is exercised with: two that cover cell centres
\* (one cell; every cell, so they overlap), an island whose nearest cell, the
\* last one, is exactly at the cap, and an island beyond the cap of every cell
CoversOne == Geom(FALSE, {0}, 0, 0, FALLBACK_MAX_KM - 1)
CoversAll == Geom(FALSE, CellIdx, 0, NCells - 1, FALLBACK_MAX_KM - 1)
IslandAtCap == Geom(FALSE, {}, NCells - 1, NCells - 1, FALLBACK_MAX_KM)
IslandBeyondCap == Geom(FALSE, {}, 0, 0, FALLBACK_MAX_KM + 1)

RunGeoms == {CoversOne, CoversAll, IslandAtCap, IslandBeyondCap}

Row(name, geom) == [name |-> name, geom |-> geom]

\* great-circle distances (km) from a geometry's anchor point to every cell
\* centre, in flat row-major order: the vector _haversine_km returns
haversine_km(geom) ==
    [k \in 1 .. NCells |-> IF (k - 1) \in {geom.c1, geom.c2} THEN geom.km ELSE geom.km + 1]

\* Time axis of the raw file of year y: every step in y ("clean"), or the
\* last step already in y + 1 ("spill")
TimeAxis(y, kind) ==
    [t \in 1 .. StepsPerFile |-> IF kind = "spill" /\ t = StepsPerFile THEN y + 1 ELSE y]

\* t2m of the raw file of year y, Kelvin (hundredths): a field whose values
\* differ from cell to cell and from step to step
RawT2m(y) ==
    [t \in 1 .. StepsPerFile |->
        [idx \in CellIdx |-> KELVIN_OFFSET + 100 * (idx + 1 + NCells * (t - 1)) + 1000 * y]]

\* config.py: TIME_NAME, the name of the time axis of the ERA5 files
TIME_NAME == "valid_time"

\* a dataset as opened: the name of its time axis, the axis, and its variable
Dataset(tname, time, t2m) == [tname |-> tname, time |-> time, t2m |-> t2m]

NoDs == Dataset(TIME_NAME, <<>>, <<>>)

\* ------------------------------------------------------- the time column
\* names a time axis is tried with: the configured one, a recognized one in
\* another case, one that only contains "time", and one that does not
AxisNames == {"valid_time", "Time", "timestamp", "t"}

\* the names both paths recognize, in the order they are tried
RecognizedTimeNames == <<"time", "valid_time", "date", "datetime">>

\* c.lower(), on the column names of the model
lower(c) == IF c = "Time" THEN "time" ELSE c

\* "time" in c, on the (lowered) column names of the model
ContainsTime(c) == c \in {"time", "valid_time", "datetime", "timestamp"}

\* the first position at which the sequence of flags is TRUE, 0 when none is
FirstIndex(flags) ==
    IF \E k \in 1 .. Len(flags) : flags[k]
    THEN CHOOSE k \in 1 .. Len(flags) : flags[k] /\ \A j \in 1 .. (k - 1) : ~flags[j]
    ELSE 0

\* the lowered name is one of the recognized time names
Recognized(name) == \E k \in 1 .. Len(RecognizedTimeNames) : lower(name) = RecognizedTimeNames[k]

\* get_time_col(columns): the column whose lowered name is the first
\* recognized name present, else the first column containing "time", else None
get_time_col(columns) ==
    LET r == FirstIndex([k \in 1 .. Len(RecognizedTimeNames) |->
                            \E j \in 1 .. Len(columns) : lower(columns[j]) = RecognizedTimeNames[k]])
        sub == FirstIndex([j \in 1 .. Len(columns) |-> ContainsTime(lower(columns[j]))])
    IN  IF r # 0
        THEN columns[FirstIndex([j \in 1 .. Len(columns) |->
                                    lower(columns[j]) = RecognizedTimeNames[r]])]
        ELSE IF sub # 0 THEN columns[sub] ELSE "None"

\* columns of df_weighted_batch at line 213: the index levels (time axis;
\* "region" has been dropped), the region coordinates, the value, "country"
BatchColumns(dset) == <<dset.tname, "abbrevs", "names", "avg_temp_c", "country">>

\* tcol = get_time_col(df_weighted_batch.columns.tolist()) or TIME_NAME
BatchTimeCol(dset) ==
    LET c == get_time_col(BatchColumns(dset))
    IN  IF c = "None" THEN TIME_NAME ELSE c

\* df_weighted_batch[tcol] raises KeyError when tcol is not a column
BatchTimeColMissing(dset) ==
    \A k \in 1 .. Len(BatchColumns(dset)) : BatchColumns(dset)[k] # BatchTimeCol(dset)

\* columns of dfp at line 102: the index level (time axis), the scalar
\* coordinates of the selected cell, the value
FallbackColumns(dset) == <<dset.tname, "lat", "lon", "avg_temp_c">>

\* nearest_cell_fallback lines 102-106: the first column of a recognized
\* name, else the first column containing "time", else the first column
FallbackTimeCol(dset) ==
    LET columns == FallbackColumns(dset)
        rec == FirstIndex([j \in 1 .. Len(columns) |-> Recognized(columns[j])])
        sub == FirstIndex([j \in 1 .. Len(columns) |-> ContainsTime(lower(columns[j]))])
    IN  IF rec # 0 THEN columns[rec]
        ELSE IF sub # 0 THEN columns[sub] ELSE columns[1]

\* pd.to_datetime(numbers).dt.year: numbers are nanoseconds after the epoch
EPOCH_YEAR == 1970

\* pd.to_datetime(frame[col]).dt.year at step t: the calendar year of the
\* step when col is the time axis; another column holds plain numbers
YearOfColumn(dset, col, t) == IF col = dset.tname THEN dset.time[t] ELSE EPOCH_YEAR

\* AggregateRecord
Rec(country, year, value) == [country |-> country, year |-> year, avg_temp_c |-> value]

\* files: absent, partially written, or complete with their rows
Absent == [state |-> "absent", rows |-> <<>>]
Partial(content) == [state |-> "partial", rows |-> content]
Complete(content) == [state |-> "complete", rows |-> content]

\* a partition left by an earlier run, for a country of that run
OldPartition(y) == Complete(<<Rec("B", y, <<-100, 1>>)>>)

\* ------------------------------------------------- GridMasker (one batch)
\* the variable as the file holds it
KeepKelvin(t2m) == t2m

\* ds[TEMP_VAR] - 273.15
ToCelsius(t2m) ==
    [t \in DOMAIN t2m |-> [idx \in DOMAIN t2m[t] |-> t2m[t][idx] - KELVIN_OFFSET]]

\* weight of a cell in the reduction over (lat, lon)
CellWeight(idx) == IF AREA_WEIGHTING THEN coslat(idx \div NLon) ELSE 1

RECURSIVE WeightedSum(_, _, _)
\* sum of weight * value over the masked cells idx, idx + 1, ...
WeightedSum(idx, cells, field) ==
    IF idx >= NCells THEN 0
    ELSE (IF idx \in cells THEN CellWeight(idx) * field[idx] ELSE 0)
         + WeightedSum(idx + 1, cells, field)

RECURSIVE WeightAll(_, _)
\* the weights of every cell from idx on, masked or not
WeightAll(idx, cells) ==
    IF idx >= NCells THEN 0 ELSE CellWeight(idx) + WeightAll(idx + 1, cells)

RECURSIVE WeightTotal(_, _)
\* sum of the weights of the masked cells idx, idx + 1, ...
WeightTotal(idx, cells) ==
    IF idx >= NCells THEN 0
    ELSE (IF idx \in cells THEN CellWeight(idx) ELSE 0) + WeightTotal(idx + 1, cells)

\* masked_batch.weighted(coslat).mean(dim=["lat", "lon"]) for one region and
\* one time step: cells outside the mask are NaN and are skipped
RegionMean(cells, field) == Frac(WeightedSum(0, cells, field), WeightTotal(0, cells))

\* rows of region_time_batch.to_dataframe() for the region of table row j,
\* with "country" mapped and "year" taken from the column tcol
RegionTimeRows(gdf, dset, j) ==
    [t \in 1 .. Len(dset.time) |->
        Rec(gdf[j].name, YearOfColumn(dset, BatchTimeCol(dset), t),
            RegionMean(gdf[j].geom.cells, dset.t2m[t]))]

\* df_weighted_batch of the batch of table rows start+1 .. batch_end (0-based
\* start:batch_end); mask_3D drops the regions that contain no cell centre
BatchFrame(gdf, dset, start, batch_end) ==
    Flatten([jj \in 1 .. (batch_end - start) |->
        IF gdf[start + jj].geom.cells = {} THEN <<>> ELSE RegionTimeRows(gdf, dset, start + jj)])

\* order of the group keys (country, year) of a sorted groupby
KeyLess(a, b) ==
    \/ NameRank(a[1]) < NameRank(b[1])
    \/ (a[1] = b[1] /\ a[2] < b[2])

RECURSIVE SortKeys(_)
SortKeys(S) ==
    IF S = {} THEN <<>>
    ELSE LET m == CHOOSE x \in S : \A y \in S : x = y \/ KeyLess(x, y)
         IN  <<m>> \o SortKeys(S \ {m})

RECURSIVE ValuesOf(_, _)
\* avg_temp_c of the rows of frame with group key, in frame order
ValuesOf(frame, key) ==
    IF frame = <<>> THEN <<>>
    ELSE (IF <<Head(frame).country, Head(frame).year>> = key
          THEN <<Head(frame).avg_temp_c>> ELSE <<>>) \o ValuesOf(Tail(frame), key)

\* frame.groupby(["country", "year"], as_index=False)["avg_temp_c"].mean()
GroupByCountryYear(frame) ==
    LET keys == SortKeys({<<r.country, r.year>> : r \in Range(frame)})
    IN  [k \in 1 .. Len(keys) |->
            Rec(keys[k][1], keys[k][2], FracMean(ValuesOf(frame, keys[k])))]

\* one pass of the batch loop: the frame appended to year_results
BatchGrouped(gdf, dset, year, start, bsize) ==
    LET batch_end == Min(start + bsize, Len(gdf))
        frame == BatchFrame(gdf, dset, start, batch_end)
        this_year == SelectSeq(frame, LAMBDA r : r.year = year)
    IN  GroupByCountryYear(this_year)

RECURSIVE SortNames(_)
\* sorted(list(names))
SortNames(S) ==
    IF S = {} THEN <<>>
    ELSE LET m == CHOOSE x \in S : \A y \in S : NameRank(x) <= NameRank(y)
         IN  <<m>> \o SortNames(S \ {m})

\* every region name, whether or not the frame has a row for it
EveryCountry(gdf, frame) == SortNames({gdf[j].name : j \in 1 .. Len(gdf)})

\* sorted(list(all_countries - present_countries))
MissingCountries(gdf, frame) ==
    SortNames({gdf[j].name : j \in 1 .. Len(gdf)} \ {r.country : r \in Range(frame)})

\* ------------------------------------------------------ FallbackResolver
\* gdf.loc[gdf[country_col] == name, "geometry"].unary_union: empty when no
\* row of that name has a geometry; otherwise the union of the parts, whose
\* representative point lies in one of them
unary_union(gdf, name) ==
    LET parts == {gdf[j].geom : j \in {k \in 1 .. Len(gdf) : gdf[k].name = name /\ ~gdf[k].geom.empty}}
    IN  IF parts = {} THEN {EmptyGeom} ELSE parts

RECURSIVE ArgMinScan(_, _, _)
\* np.argmin: scan from position k, keeping the first smallest seen so far
ArgMinScan(d, k, best) ==
    IF k > Len(d) THEN best
    ELSE ArgMinScan(d, k + 1, IF d[k] < d[best] THEN k ELSE best)

RECURSIVE ArgMinScanLast(_, _, _)
ArgMinScanLast(d, k, best) ==
    IF k > Len(d) THEN best
    ELSE ArgMinScanLast(d, k + 1, IF d[k] <= d[best] THEN k ELSE best)

\* the last minimum instead of the first
argmin_last(d) == ArgMinScanLast(d, 2, 1) - 1

\* 0-based flat index of the first minimum
argmin(d) == ArgMinScan(d, 2, 1) - 1

\* idx // nlon, idx % nlon
IlatOf(idx) == idx \div NLon
IlonOf(idx) == idx % NLon

RECURSIVE NearestScan(_, _, _, _, _)
NearestScan(coords, n, x, k, best) ==
    IF k >= n THEN best
    ELSE NearestScan(coords, n, x, k + 1,
                     IF Abs(coords[k] - x) < Abs(coords[best] - x) THEN k ELSE best)

\* the first coordinate of the axis, whatever x is
SelFirst(coords, n, x) == 0

\* .sel(..., method="nearest") along one axis: index of the nearest coordinate
SelNearest(coords, n, x) == NearestScan(coords, n, x, 1, 0)

\* an empty frame, whatever the series holds
NoRecords(dset, idx, name) == <<>>

\* dfp.groupby("year", as_index=False)["avg_temp_c"].mean() of the series of
\* cell idx, with dfp["country"] = name
CellAnnualMeans(dset, idx, name) ==
    LET frame == [t \in 1 .. Len(dset.time) |->
                     Rec(name, YearOfColumn(dset, FallbackTimeCol(dset), t), dset.t2m[t][idx])]
        whole == [t \in 1 .. Len(frame) |->
                     Rec(name, frame[t].year, <<frame[t].avg_temp_c, 1>>)]
    IN  GroupByCountryYear(whole)

AuditEntry(country, status, min_km, near_lat, near_lon) ==
    [country |-> country, status |-> status, min_km |-> min_km,
     near_lat |-> near_lat, near_lon |-> near_lon]

\* f"no_cell_within_{max_distance_km}km" for the configured cap of 25.0
NoCellStatus == "no_cell_within_25.0km"

\* the boundary excluded: a cell exactly at the cap is rejected
BeyondCapInclusive(dmin, max_distance_km) == dmin >= max_distance_km

\* dmin > max_distance_km
BeyondCap(dmin, max_distance_km) == dmin > max_distance_km

\* one pass of the loop over missing_countries, for the geometry found:
\* the frame appended to rows (none when the country is skipped), the audit
\* entry, and the distance vector computed
FallbackCountry(name, geom, dset, max_distance_km) ==
    IF geom.empty
    THEN [rows |-> <<>>, emitted |-> FALSE, dists |-> <<>>,
          audit |-> AuditEntry(name, "no_geometry", NaN, NaN, NaN)]
    ELSE LET d == haversine_km(geom)
             idx == argmin(d)
             dmin == d[idx + 1]
             near_lat == Lats[IlatOf(idx)]
             near_lon == Lons[IlonOf(idx)]
             cell == SelNearest(Lats, NLat, near_lat) * NLon + SelNearest(Lons, NLon, near_lon)
         IN  IF BeyondCap(dmin, max_distance_km)
             THEN [rows |-> <<>>, emitted |-> FALSE, dists |-> d,
                   audit |-> AuditEntry(name, NoCellStatus, dmin, NaN, NaN)]
             ELSE [rows |-> CellAnnualMeans(dset, cell, name), emitted |-> TRUE, dists |-> d,
                   audit |-> AuditEntry(name, "fallback_used", dmin, near_lat, near_lon)]

\* -------------------------------------------------------- PartitionWriter
RECURSIVE DropDuplicates(_, _)
\* frame.drop_duplicates(subset=["country", "year"], keep="first"); seen is
\* the set of keys of the rows already kept
DropDuplicates(frame, seen) ==
    IF frame = <<>> THEN <<>>
    ELSE LET key == <<Head(frame).country, Head(frame).year>>
         IN  IF key \in seen THEN DropDuplicates(Tail(frame), seen)
             ELSE <<Head(frame)>> \o DropDuplicates(Tail(frame), seen \cup {key})

RECURSIVE Reverse(_)
Reverse(frame) == IF frame = <<>> THEN <<>> ELSE Reverse(Tail(frame)) \o <<Head(frame)>>

\* the concatenation written as it is, without drop_duplicates
ConcatOnly(direct, fallback) == direct \o fallback

\* drop_duplicates(keep="last")
MergeKeepLast(direct, fallback) == Reverse(DropDuplicates(Reverse(direct \o fallback), {}))

\* pd.concat([df_year, fb_df]) followed by drop_duplicates(keep="first")
MergeYearFrames(direct, fallback) == DropDuplicates(direct \o fallback, {})

vars == <<entry, pc, gdf_clean, batch_size, years, raw, partition, tmp_file, audit_csv,
          preview_csv, yi, ds, i, year_results, df_year, missing_countries, fb_k, rows,
          audit, dists, fb_df, audit_df, final_year, n_partitions, preview_frames,
          audit_frames, san, time_name, partition0, previous, writer, fetch, pub>>

inputs == <<entry, gdf_clean, batch_size, years, raw, san, time_name, partition0, previous,
            writer, fetch, pub>>
files == <<partition, tmp_file, audit_csv, preview_csv>>
fb_locals == <<fb_k, rows, audit, dists>>

\* everything the writers of SpecConcurrent leave alone, the files apart
run_vars_but_files ==
    <<entry, pc, gdf_clean, batch_size, years, raw, yi, ds, i, year_results, df_year,
      missing_countries, fb_k, rows, audit, dists, fb_df, audit_df, final_year,
      n_partitions, preview_frames, audit_frames, time_name, partition0, previous,
      fetch, pub>>
run_acc == <<n_partitions, preview_frames, audit_frames>>

\* the year of the current pass of the loop over years
year == years[yi]

\* polygon tables of 1 .. MaxRegions rows over a set of geometries
Tables(geoms) ==
    UNION {[1 .. n -> {Row(nm, g) : nm \in Names, g \in geoms}] : n \in 1 .. MaxRegions}

\* sanitize_countries not entered
SanIdle == [pc |-> "idle"]

\* no earlier invocation
NoPrevious == [exit |-> "none"]

\* no concurrent invocation
NoWriters == <<>>

\* ensure_era5_files not entered
FetchIdle == [pc |-> "idle"]

\* publish not entered
PubIdle == [pc |-> "idle"]

\* one invocation on its own, on files named as config.py names them
Single ==
    /\ time_name = TIME_NAME
    /\ partition0 = partition
    /\ previous = NoPrevious
    /\ writer = NoWriters

\* the audit file left by an earlier run
OldAudit == Complete(<<AuditEntry("B", "no_geometry", NaN, NaN, NaN)>>)

\* locals before the first pass of the loop over years
LocalsInit ==
    /\ yi = 1
    /\ ds = NoDs
    /\ i = 0
    /\ year_results = <<>>
    /\ df_year = <<>>
    /\ missing_countries = <<>>
    /\ fb_k = 1
    /\ rows = <<>>
    /\ audit = <<>>
    /\ dists = <<>>
    /\ fb_df = <<>>
    /\ audit_df = <<>>
    /\ final_year = <<>>
    /\ n_partitions = 0
    /\ preview_frames = <<>>
    /\ audit_frames = <<>>

\* compute_country_annual_means_from_years(years) entered, polygons sanitized
\* and regions built; the output directory is empty or holds the partitions
\* of an earlier run
Init ==
    /\ entry = "run"
    /\ pc = "open"
    /\ gdf_clean \in Tables(RunGeoms)
    /\ batch_size \in 1 .. Len(gdf_clean)
    /\ years = [k \in 1 .. NumYears |-> k]
    /\ raw \in [Years -> {"clean", "spill"}]
    /\ \E prior \in BOOLEAN :
          /\ partition = [y \in Years |-> IF prior THEN OldPartition(y) ELSE Absent]
          /\ audit_csv = IF prior THEN OldAudit ELSE Absent
    /\ tmp_file = [y \in Years |-> Absent]
    /\ preview_csv = Absent
    /\ LocalsInit
    /\ san = SanIdle
    /\ fetch = FetchIdle
    /\ pub = PubIdle
    /\ Single

\* ------------------------------------------------------------ the run
\* ds = open_era5_years([year]); ds[TEMP_VAR] = ds[TEMP_VAR] - 273.15; rename
\* (the raw file of every year of the run has been fetched: ensure_era5_files)
OpenYear ==
    /\ pc = "open"
    /\ ds' = Dataset(time_name, TimeAxis(year, raw[year]), ToCelsius(RawT2m(year)))
    /\ year_results' = <<>>
    /\ i' = 0
    /\ pc' = "batch"
    /\ UNCHANGED <<inputs, files, yi, df_year, missing_countries, fb_locals, fb_df,
                   audit_df, final_year, run_acc>>

\* one pass of: for i in range(0, len(regions.names), batch_size); the pass
\* ends the run with KeyError when the column tcol does not exist
BatchStep ==
    /\ pc = "batch"
    /\ i < Len(gdf_clean)
    /\ IF BatchTimeColMissing(ds)
       THEN /\ pc' = "raised"
            /\ UNCHANGED <<year_results, i>>
       ELSE /\ year_results' =
                   Append(year_results, BatchGrouped(gdf_clean, ds, year, i, batch_size))
            /\ i' = i + batch_size
            /\ pc' = pc
    /\ UNCHANGED <<inputs, files, yi, ds, df_year, missing_countries, fb_locals, fb_df,
                   audit_df, final_year, run_acc>>

\* df_year = pd.concat(year_results); missing_countries; the fallback is
\* called when a country is missing, and skipped otherwise
ConcatYear ==
    /\ pc = "batch"
    /\ i >= Len(gdf_clean)
    /\ df_year' = Flatten(year_results)
    /\ missing_countries' = MissingCountries(gdf_clean, df_year')
    /\ fb_k' = 1
    /\ rows' = <<>>
    /\ audit' = <<>>
    /\ dists' = <<>>
    /\ fb_df' = <<>>
    /\ audit_df' = <<>>
    /\ pc' = IF Len(missing_countries') > 0 THEN "fallback" ELSE "merge"
    /\ UNCHANGED <<inputs, files, yi, ds, i, year_results, final_year, run_acc>>

\* audit.append({...}): every pass that reaches an outcome logs it
AppendAudit(log, out) == Append(log, out.audit)

\* a skipped country leaves the loop with break instead of continue
BreakOnFailure(k, out, n) == IF out.emitted THEN k + 1 ELSE n + 1

\* position after a pass over entry k of a list of n names: "continue" after
\* a skipped country, the end of the loop body after a resolved one
NextPass(k, out, n) == k + 1

\* nearest_cell_fallback: one pass of: for name in missing_countries
FallbackPass ==
    /\ pc = "fallback"
    /\ fb_k <= Len(missing_countries)
    /\ \E geom \in unary_union(gdf_clean, missing_countries[fb_k]) :
          LET out == FallbackCountry(missing_countries[fb_k], geom, ds, FALLBACK_MAX_KM)
          IN  /\ rows' = IF out.emitted THEN Append(rows, out.rows) ELSE rows
              /\ audit' = AppendAudit(audit, out)
              /\ dists' = out.dists
              /\ fb_k' = NextPass(fb_k, out, Len(missing_countries))
    /\ UNCHANGED <<inputs, files, pc, yi, ds, i, year_results, df_year, missing_countries,
                   fb_df, audit_df, final_year, run_acc>>

\* nearest_cell_fallback: fb = pd.concat(rows); return fb[...], audit_df
FallbackReturn ==
    /\ pc = "fallback"
    /\ fb_k > Len(missing_countries)
    /\ fb_df' = Flatten(rows)
    /\ audit_df' = audit
    /\ dists' = <<>>
    /\ pc' = IF entry = "run" THEN "merge" ELSE "returned"
    /\ UNCHANGED <<inputs, files, yi, ds, i, year_results, df_year, missing_countries,
                   fb_k, rows, audit, final_year, run_acc>>

\* final_year = pd.concat([df_year, fb_df]).drop_duplicates(...); an empty
\* record set is not written
MergeYear ==
    /\ pc = "merge"
    /\ final_year' = MergeYearFrames(df_year, fb_df)
    /\ pc' = IF final_year' # <<>> THEN "to_parquet" ELSE "collect_audit"
    /\ UNCHANGED <<inputs, files, yi, ds, i, year_results, df_year, missing_countries,
                   fb_locals, fb_df, audit_df, run_acc>>

\* to_parquet given final_path itself
WriteFinalPath == "final"

\* the path to_parquet writes: tmp_path = f"{final_path}.tmp", which
\* atomic_replace then renames to final_path
WritePath == "tmp"

\* final_year.to_parquet(tmp_path): the file is created and filled ...
ToParquetBegin ==
    /\ pc = "to_parquet"
    /\ \E k \in 0 .. (Len(final_year) - 1) :
          IF WritePath = "tmp"
          THEN /\ tmp_file' = [tmp_file EXCEPT ![year] = Partial(SubSeq(final_year, 1, k))]
               /\ UNCHANGED partition
          ELSE /\ partition' = [partition EXCEPT ![year] = Partial(SubSeq(final_year, 1, k))]
               /\ UNCHANGED tmp_file
    /\ pc' = "to_parquet_write"
    /\ UNCHANGED <<inputs, audit_csv, preview_csv, yi, ds, i, year_results, df_year,
                   missing_countries, fb_locals, fb_df, audit_df, final_year, run_acc>>

\* ... and closed with every row in it
ToParquetEnd ==
    /\ pc = "to_parquet_write"
    /\ IF WritePath = "tmp"
       THEN /\ tmp_file' = [tmp_file EXCEPT ![year] = Complete(final_year)]
            /\ UNCHANGED partition
       ELSE /\ partition' = [partition EXCEPT ![year] = Complete(final_year)]
            /\ UNCHANGED tmp_file
    /\ pc' = "replace"
    /\ UNCHANGED <<inputs, audit_csv, preview_csv, yi, ds, i, year_results, df_year,
                   missing_countries, fb_locals, fb_df, audit_df, final_year, run_acc>>

\* the rows of the source added to what the destination held
replace_appending(src, dst) == Complete(dst.rows \o src.rows)

\* os.replace(src, dst): what the destination path holds afterwards, whatever
\* it held before
os_replace(src, dst) == src

\* atomic_replace(tmp_path, final_path): os.replace; n_partitions += 1
AtomicReplace ==
    /\ pc = "replace"
    /\ IF WritePath = "tmp"
       THEN /\ partition' = [partition EXCEPT ![year] = os_replace(tmp_file[year], partition[year])]
            /\ tmp_file' = [tmp_file EXCEPT ![year] = Absent]
       ELSE UNCHANGED <<partition, tmp_file>>
    /\ n_partitions' = n_partitions + 1
    /\ preview_frames' = Append(preview_frames, final_year)
    /\ pc' = "collect_audit"
    /\ UNCHANGED <<inputs, audit_csv, preview_csv, yi, ds, i, year_results, df_year,
                   missing_countries, fb_locals, fb_df, audit_df, final_year, audit_frames>>

\* the dataset stays open when the loop goes on
left_open(dset) == dset

\* ds.close(): the files of the dataset are released
ds_close(dset) == NoDs

\* audit_frames.append(...) when audit_df is not empty; ds.close(); next year
CollectAudit ==
    /\ pc = "collect_audit"
    /\ audit_frames' = IF audit_df # <<>> THEN Append(audit_frames, audit_df) ELSE audit_frames
    /\ ds' = ds_close(ds)
    /\ IF yi < Len(years)
       THEN /\ yi' = yi + 1
            /\ pc' = "open"
       ELSE /\ yi' = yi
            /\ pc' = "finish"
    /\ UNCHANGED <<inputs, files, i, year_results, df_year, missing_countries, fb_locals,
                   fb_df, audit_df, final_year, n_partitions, preview_frames>>

\* frame.sort_values(["country", "year"]) (a stable sort)
SortRows(frame) ==
    LET keys == SortKeys({<<r.country, r.year>> : r \in Range(frame)})
    IN  Flatten([k \in 1 .. Len(keys) |->
            SelectSeq(frame, LAMBDA r : <<r.country, r.year>> = keys[k])])

\* the audit file is written once, when a year had audit rows; the preview
\* CSV is written sorted and deduplicated
Finish ==
    /\ pc = "finish"
    /\ audit_csv' = IF audit_frames # <<>> THEN Complete(Flatten(audit_frames)) ELSE audit_csv
    /\ preview_csv' = Complete(DropDuplicates(SortRows(Flatten(preview_frames)), {}))
    /\ pc' = "done"
    /\ UNCHANGED <<inputs, partition, tmp_file, yi, ds, i, year_results, df_year,
                   missing_countries, fb_locals, fb_df, audit_df, final_year, run_acc>>

\* the process is killed between two steps
Interrupt ==
    /\ entry = "run"
    /\ pc \notin {"done", "interrupted", "raised"}
    /\ pc' = "interrupted"
    /\ UNCHANGED <<inputs, files, yi, ds, i, year_results, df_year, missing_countries,
                   fb_locals, fb_df, audit_df, final_year, run_acc>>

\* the failed call is not an error: the code goes on to the rename
ContinueAfterFailure(at) == IF at = "to_parquet_write" THEN "replace" ELSE "raised"

\* where the run is after to_parquet or os.replace raised at position at:
\* nothing catches the exception, it leaves the function
AfterFailure(at) == "raised"

\* to_parquet fails before or while it writes, or os.replace fails: the files
\* stay as the failed call left them
PersistenceFailure ==
    /\ entry = "run"
    /\ pc \in {"to_parquet", "to_parquet_write", "replace"}
    /\ pc' = AfterFailure(pc)
    /\ UNCHANGED <<inputs, files, yi, ds, i, year_results, df_year, missing_countries,
                   fb_locals, fb_df, audit_df, final_year, run_acc>>

\* the run is invoked again, once, with the same inputs, on the files the
\* previous invocation left
Reinvoke ==
    /\ entry = "run"
    /\ previous = NoPrevious
    /\ pc \in {"done", "interrupted", "raised"}
    /\ previous' = [exit |-> pc, partition |-> partition, tmp_file |-> tmp_file]
    /\ pc' = "open"
    /\ yi' = 1
    /\ ds' = NoDs
    /\ i' = 0
    /\ year_results' = <<>>
    /\ df_year' = <<>>
    /\ missing_countries' = <<>>
    /\ fb_k' = 1
    /\ rows' = <<>>
    /\ audit' = <<>>
    /\ dists' = <<>>
    /\ fb_df' = <<>>
    /\ audit_df' = <<>>
    /\ final_year' = <<>>
    /\ n_partitions' = 0
    /\ preview_frames' = <<>>
    /\ audit_frames' = <<>>
    /\ UNCHANGED <<entry, gdf_clean, batch_size, years, raw, san, time_name, partition0,
                   writer, fetch, pub, files>>

Next ==
    \/ OpenYear
    \/ BatchStep
    \/ ConcatYear
    \/ FallbackPass
    \/ FallbackReturn
    \/ MergeYear
    \/ ToParquetBegin
    \/ ToParquetEnd
    \/ AtomicReplace
    \/ CollectAudit
    \/ Finish
    \/ Interrupt

Spec == Init /\ [][Next]_vars

\* ------------------------------------------ the direct reduction of a year
\* the run entered with area weighting on or off, up to the direct results
\* of the first year
InitMask ==
    /\ entry \in {"weighted", "unweighted"}
    /\ pc = "open"
    /\ gdf_clean \in Tables(RunGeoms)
    /\ batch_size \in 1 .. Len(gdf_clean)
    /\ years = [k \in 1 .. NumYears |-> k]
    /\ raw \in {[y \in Years |-> kind] : kind \in {"clean", "spill"}}
    /\ partition = [y \in Years |-> Absent]
    /\ tmp_file = [y \in Years |-> Absent]
    /\ audit_csv = Absent
    /\ preview_csv = Absent
    /\ LocalsInit
    /\ san = SanIdle
    /\ fetch = FetchIdle
    /\ pub = PubIdle
    /\ Single

NextMask ==
    \/ OpenYear
    \/ BatchStep
    \/ ConcatYear

SpecMask == InitMask /\ [][NextMask]_vars

\* ------------------------------------- nearest_cell_fallback on its own
\* polygon tables the fallback is called with: a first row of any geometry,
\* and possibly a second row, of the same or another name
FallbackTables ==
    {<<Row("A", g)>> : g \in AllGeoms} \cup
    {<<Row("A", g), Row(nm, g2)>> :
        g \in AllGeoms, nm \in Names, g2 \in {EmptyGeom} \cup {h \in RunGeoms : h.cells = {}}}

\* lists of names to resolve: names of the table and a name it does not hold
MissingLists == UNION {[1 .. n -> Names \cup {"Z"}] : n \in 0 .. MaxRegions}

\* nearest_cell_fallback(ds, gdf, country_col, missing_countries, ...) entered
InitFallback ==
    /\ entry = "fallback"
    /\ pc = "fallback"
    /\ gdf_clean \in FallbackTables
    /\ batch_size = 1
    /\ years = <<1>>
    /\ raw \in {[y \in Years |-> kind] : kind \in {"clean", "spill"}}
    /\ partition = [y \in Years |-> Absent]
    /\ tmp_file = [y \in Years |-> Absent]
    /\ audit_csv = Absent
    /\ preview_csv = Absent
    /\ Single
    /\ yi = 1
    /\ ds = Dataset(time_name, TimeAxis(1, raw[1]), ToCelsius(RawT2m(1)))
    /\ i = 0
    /\ year_results = <<>>
    /\ df_year = <<>>
    /\ missing_countries \in MissingLists
    /\ fb_k = 1
    /\ rows = <<>>
    /\ audit = <<>>
    /\ dists = <<>>
    /\ fb_df = <<>>
    /\ audit_df = <<>>
    /\ final_year = <<>>
    /\ n_partitions = 0
    /\ preview_frames = <<>>
    /\ audit_frames = <<>>
    /\ san = SanIdle
    /\ fetch = FetchIdle
    /\ pub = PubIdle

NextFallback ==
    \/ FallbackPass
    \/ FallbackReturn

SpecFallback == InitFallback /\ [][NextFallback]_vars

\* --------------------------- failures, interruptions and a second invocation
\* tables: a covered country and an island within the cap; one island beyond
\* the cap (no record); a repeated name; two islands, one beyond the cap
RecoveryTables ==
    { <<Row("B", CoversOne), Row("A", IslandAtCap)>>,
      <<Row("A", IslandBeyondCap)>>,
      <<Row("A", CoversOne), Row("A", CoversAll)>>,
      <<Row("A", IslandAtCap), Row("B", IslandBeyondCap)>> }

InitRecovery ==
    /\ entry = "run"
    /\ pc = "open"
    /\ gdf_clean \in RecoveryTables
    /\ batch_size \in 1 .. Len(gdf_clean)
    /\ years = [k \in 1 .. NumYears |-> k]
    /\ raw \in {[y \in Years |-> kind] : kind \in {"clean", "spill"}}
    /\ \E prior \in BOOLEAN :
          /\ partition = [y \in Years |-> IF prior THEN OldPartition(y) ELSE Absent]
          /\ audit_csv = IF prior THEN OldAudit ELSE Absent
    /\ tmp_file = [y \in Years |-> Absent]
    /\ preview_csv = Absent
    /\ LocalsInit
    /\ san = SanIdle
    /\ fetch = FetchIdle
    /\ pub = PubIdle
    /\ Single

NextRecovery ==
    \/ Next
    \/ PersistenceFailure
    \/ Reinvoke

SpecRecovery == InitRecovery /\ [][NextRecovery]_vars

\* -------------------- an interrupted first invocation, and the run again
\* a step of the code of the run
RunStep ==
    \/ OpenYear
    \/ BatchStep
    \/ ConcatYear
    \/ FallbackPass
    \/ FallbackReturn
    \/ MergeYear
    \/ ToParquetBegin
    \/ ToParquetEnd
    \/ AtomicReplace
    \/ CollectAudit
    \/ Finish

\* the first invocation is killed between two steps
InterruptFirst ==
    /\ previous = NoPrevious
    /\ Interrupt

NextRerun ==
    \/ RunStep
    \/ InterruptFirst
    \/ Reinvoke

\* the run has a step of its code to take: it has neither finished nor been
\* stopped (every RunStep changes pc, i or fb_k, so this is ENABLED <<RunStep>>_vars)
Running == pc \notin {"done", "interrupted", "raised"}

\* weak fairness of RunStep, WF_vars(RunStep), with its enabling condition
\* written out: a process that is not killed goes on running its code
RunStepFair == ([]<>(~Running)) \/ ([]<><<RunStep>>_vars)

SpecRerun == InitRecovery /\ [][NextRerun]_vars /\ RunStepFair

\* ------------------------------------- time axes of any name, both paths
\* a table with a covered country and an island, and a table of one country
TimeAxisTables ==
    { <<Row("B", CoversOne), Row("A", IslandAtCap)>>, <<Row("A", CoversAll)>> }

\* the run, or nearest_cell_fallback on its own, entered on raw files whose
\* time axis has any of the names AxisNames
InitTimeAxis ==
    /\ entry \in {"run", "fallback"}
    /\ gdf_clean \in TimeAxisTables
    /\ batch_size \in 1 .. Len(gdf_clean)
    /\ years = [k \in 1 .. NumYears |-> k]
    /\ raw \in {[y \in Years |-> kind] : kind \in {"clean", "spill"}}
    /\ partition = [y \in Years |-> Absent]
    /\ tmp_file = [y \in Years |-> Absent]
    /\ audit_csv = Absent
    /\ preview_csv = Absent
    /\ time_name \in AxisNames
    /\ partition0 = partition
    /\ previous = NoPrevious
    /\ writer = NoWriters
    /\ yi = 1
    /\ IF entry = "run"
       THEN /\ pc = "open"
            /\ ds = NoDs
            /\ missing_countries = <<>>
       ELSE /\ pc = "fallback"
            /\ ds = Dataset(time_name, TimeAxis(1, raw[1]), ToCelsius(RawT2m(1)))
            /\ missing_countries = SortNames({gdf_clean[j].name : j \in 1 .. Len(gdf_clean)})
    /\ i = 0
    /\ year_results = <<>>
    /\ df_year = <<>>
    /\ fb_k = 1
    /\ rows = <<>>
    /\ audit = <<>>
    /\ dists = <<>>
    /\ fb_df = <<>>
    /\ audit_df = <<>>
    /\ final_year = <<>>
    /\ n_partitions = 0
    /\ preview_frames = <<>>
    /\ audit_frames = <<>>
    /\ san = SanIdle
    /\ fetch = FetchIdle
    /\ pub = PubIdle

SpecTimeAxis == InitTimeAxis /\ [][Next]_vars

\* ------------------------------------------- the merge and write of a year
DirectValues == {<<100, 1>>, <<200, 1>>}
FallbackValues == {<<300, 1>>}

\* frames of at most MaxRegions records
Frames(yrs, values) ==
    UNION {[1 .. n -> {Rec(nm, y, v) : nm \in Names, y \in yrs, v \in values}] :
             n \in 0 .. MaxRegions}

\* the merge of line 247 entered with any direct frame of the year and any
\* fallback frame
InitMerge ==
    /\ entry = "merge"
    /\ pc = "merge"
    /\ gdf_clean = <<>>
    /\ batch_size = 1
    /\ years = <<1>>
    /\ raw = [y \in Years |-> "clean"]
    /\ partition = [y \in Years |-> Absent]
    /\ tmp_file = [y \in Years |-> Absent]
    /\ audit_csv = Absent
    /\ preview_csv = Absent
    /\ yi = 1
    /\ ds = NoDs
    /\ i = 0
    /\ year_results = <<>>
    /\ df_year \in Frames({1}, DirectValues)
    /\ missing_countries = <<>>
    /\ fb_k = 1
    /\ rows = <<>>
    /\ audit = <<>>
    /\ dists = <<>>
    /\ fb_df \in Frames({1, 2}, FallbackValues)
    /\ audit_df = <<>>
    /\ final_year = <<>>
    /\ n_partitions = 0
    /\ preview_frames = <<>>
    /\ audit_frames = <<>>
    /\ san = SanIdle
    /\ fetch = FetchIdle
    /\ pub = PubIdle
    /\ Single

NextMerge ==
    \/ MergeYear
    \/ ToParquetBegin
    \/ ToParquetEnd
    \/ AtomicReplace

SpecMerge == InitMerge /\ [][NextMerge]_vars

\* ------------------- two invocations writing the partition of one year
\* the two invocations
Writers == {1, 2}

\* a file two writers wrote into at once: neither writer's record set
Garbled == [state |-> "garbled", rows |-> <<>>]

\* an invocation that has merged its record set and is about to write it
\* (lines 256-260); fd: the path at which the file it holds open now is;
\* clean: no other writer has written into that file
WriterAt(rows_) == [pc |-> "to_parquet", rows |-> rows_, fd |-> "closed", clean |-> TRUE]

\* both invocations have reached the write of year 1, each with its record set
InitConcurrent ==
    /\ entry = "concurrent"
    /\ pc = "concurrent"
    /\ gdf_clean = <<>>
    /\ batch_size = 1
    /\ years = <<1>>
    /\ raw = [y \in Years |-> "clean"]
    /\ \E prior \in BOOLEAN :
          partition = [y \in Years |-> IF prior THEN OldPartition(y) ELSE Absent]
    /\ tmp_file = [y \in Years |-> Absent]
    /\ audit_csv = Absent
    /\ preview_csv = Absent
    /\ LocalsInit
    /\ san = SanIdle
    /\ fetch = FetchIdle
    /\ pub = PubIdle
    /\ time_name = TIME_NAME
    /\ partition0 = partition
    /\ previous = NoPrevious
    /\ writer \in [Writers -> {WriterAt(f) : f \in Frames({1}, DirectValues) \ {<<>>}}]

\* final_year.to_parquet(tmp_path) of invocation p opens tmp_path for
\* writing: the file at that path is created, or emptied if it exists, and
\* the first rows are written; a writer that holds the same file open goes on
\* writing into it
WriterBegin(p) ==
    /\ writer[p].pc = "to_parquet"
    /\ \E k \in 0 .. (Len(writer[p].rows) - 1) :
          tmp_file' = [tmp_file EXCEPT ![year] = Partial(SubSeq(writer[p].rows, 1, k))]
    /\ writer' =
          [q \in Writers |->
              IF q = p
              THEN [writer[p] EXCEPT
                      !.pc = "to_parquet_write",
                      !.fd = "tmp",
                      !.clean = \A o \in Writers \ {p} :
                                    writer[o].fd = "tmp" => writer[o].rows = writer[p].rows]
              ELSE IF writer[q].fd = "tmp"
                   THEN [writer[q] EXCEPT
                           !.clean = writer[q].clean /\ writer[q].rows = writer[p].rows]
                   ELSE writer[q]]
    /\ UNCHANGED <<run_vars_but_files, partition, audit_csv, preview_csv, san>>

\* to_parquet of invocation p writes its last rows and closes the file,
\* wherever that file now is
WriterEnd(p) ==
    /\ writer[p].pc = "to_parquet_write"
    /\ LET content == IF writer[p].clean THEN Complete(writer[p].rows) ELSE Garbled
       IN  /\ tmp_file' = IF writer[p].fd = "tmp"
                          THEN [tmp_file EXCEPT ![year] = content] ELSE tmp_file
           /\ partition' = IF writer[p].fd = "final"
                           THEN [partition EXCEPT ![year] = content] ELSE partition
    /\ writer' = [writer EXCEPT ![p].pc = "replace", ![p].fd = "closed"]
    /\ UNCHANGED <<run_vars_but_files, audit_csv, preview_csv, san>>

\* atomic_replace(tmp_path, final_path) of invocation p: os.replace renames
\* whatever file is at tmp_path, and raises FileNotFoundError when none is;
\* a file held open moves with the rename
WriterReplace(p) ==
    /\ writer[p].pc = "replace"
    /\ IF tmp_file[year] = Absent
       THEN /\ writer' = [writer EXCEPT ![p].pc = "raised"]
            /\ UNCHANGED <<partition, tmp_file>>
       ELSE /\ partition' = [partition EXCEPT ![year] = os_replace(tmp_file[year], partition[year])]
            /\ tmp_file' = [tmp_file EXCEPT ![year] = Absent]
            /\ writer' =
                  [q \in Writers |->
                      IF q = p THEN [writer[p] EXCEPT !.pc = "done"]
                      ELSE IF writer[q].fd = "tmp" THEN [writer[q] EXCEPT !.fd = "final"]
                      ELSE IF writer[q].fd = "final" THEN [writer[q] EXCEPT !.fd = "unlinked"]
                      ELSE writer[q]]
    /\ UNCHANGED <<run_vars_but_files, audit_csv, preview_csv, san>>

NextConcurrent ==
    \/ \E p \in Writers : WriterBegin(p)
    \/ \E p \in Writers : WriterEnd(p)
    \/ \E p \in Writers : WriterReplace(p)

SpecConcurrent == InitConcurrent /\ [][NextConcurrent]_vars

\* ---------------------------------------------------- sanitize_countries
\* geometries of the raw table: null, empty, valid, or invalid
\* (self-intersecting)
GeomKinds == {"null", "empty", "valid", "invalid"}

PolyRow(name, geom) == [name |-> name, geom |-> geom]

RawTables ==
    UNION {[1 .. n -> {PolyRow(nm, g) : nm \in Names, g \in GeomKinds}] : n \in 0 .. MaxRegions}

\* attribute columns of the raw table, beside "geometry"
ColumnSets == {{"name"}, {"NAME", "ADMIN"}, {"iso_a3", "country"}, {"iso_a3"}}

\* the country_col argument; "None" is Python's None
Overrides == {"None", "name", "ADMIN"}

CrsIn == {"EPSG:4326", "EPSG:3857", "None"}
CrsOut == {"EPSG:4326", "EPSG:3857"}
METRIC_CRS == "EPSG:6933"
BUFFER_METERS == 15000

\* the fixed priority list of conventional column names
NamePriority == <<"ADMIN", "NAME", "name", "COUNTRY", "country">>

\* lines 163-176: the resolved name column, or "raise"
ResolveColumn(country_col, columns) ==
    IF country_col = "None"
    THEN IF \E k \in 1 .. Len(NamePriority) : NamePriority[k] \in columns
         THEN NamePriority[CHOOSE k \in 1 .. Len(NamePriority) :
                  /\ NamePriority[k] \in columns
                  /\ \A j \in 1 .. (k - 1) : NamePriority[j] \notin columns]
         ELSE "raise"
    ELSE IF country_col \in columns THEN country_col ELSE "raise"

\* gdf[gdf.geometry.notnull()]
DropNull(gdf) == SelectSeq(gdf, LAMBDA r : r.geom # "null")

\* gdf[~gdf.geometry.is_empty]
DropEmpty(gdf) == SelectSeq(gdf, LAMBDA r : r.geom # "empty")

\* the CRS of the frame is left as it is
KeepCrs(crs, target) == crs

\* the CRS of gdf.to_crs(target)
to_crs(crs, target) == target

\* regionmask.Regions(outlines, names, abbrevs): the regions are numbered
\* 0 .. n-1 in the order given
Regions(outlines, names, abbrevs) ==
    [outlines |-> outlines, names |-> names, abbrevs |-> abbrevs,
     numbers |-> [k \in 1 .. Len(outlines) |-> k - 1]]

\* no region set built
NoRegions == Regions(<<>>, <<>>, <<>>)

\* sanitize_countries(gdf, country_col=..., out_crs=..., ...) entered
SanInputs ==
    {[pc |-> "check", is_gdf |-> TRUE, raw_gdf |-> t, gdf |-> t, crs |-> c, in_crs |-> c,
      columns |-> cols \cup {"geometry"}, country_col |-> o, out_crs |-> oc, buffer_meters |-> b,
      buffered |-> FALSE, regions |-> NoRegions] :
        t \in RawTables, c \in CrsIn, cols \in ColumnSets, o \in Overrides, oc \in CrsOut,
        b \in {0, BUFFER_METERS}}
    \cup
    {[pc |-> "check", is_gdf |-> FALSE, raw_gdf |-> <<>>, gdf |-> <<>>, crs |-> "None",
      in_crs |-> "None", columns |-> {}, country_col |-> "None", out_crs |-> "EPSG:4326",
      buffer_meters |-> 0, buffered |-> FALSE, regions |-> NoRegions]}

InitSanitize ==
    /\ entry = "sanitize"
    /\ pc = "idle"
    /\ gdf_clean = <<>>
    /\ batch_size = 1
    /\ years = <<1>>
    /\ raw = [y \in Years |-> "clean"]
    /\ partition = [y \in Years |-> Absent]
    /\ tmp_file = [y \in Years |-> Absent]
    /\ audit_csv = Absent
    /\ preview_csv = Absent
    /\ LocalsInit
    /\ san \in SanInputs
    /\ fetch = FetchIdle
    /\ pub = PubIdle
    /\ Single

\* the state of the run, which sanitize_countries, the fetcher and the
\* publisher leave alone
run_state == <<entry, pc, gdf_clean, batch_size, years, raw, partition, tmp_file, audit_csv,
               preview_csv, yi, ds, i, year_results, df_year, missing_countries, fb_k, rows,
               audit, dists, fb_df, audit_df, final_year, n_partitions, preview_frames,
               audit_frames, time_name, partition0, previous, writer>>

run_vars == <<run_state, fetch, pub>>

\* lines 152-160: the type check, the drop of null and empty geometries, the
\* check that rows are left
SanDropNullEmpty ==
    /\ san.pc = "check"
    /\ LET kept == DropEmpty(DropNull(san.gdf))
       IN  san' = IF ~san.is_gdf \/ kept = <<>>
                  THEN [san EXCEPT !.pc = "raised"]
                  ELSE [san EXCEPT !.pc = "resolve", !.gdf = kept]
    /\ UNCHANGED run_vars

\* lines 162-178: the name column
SanResolveColumn ==
    /\ san.pc = "resolve"
    /\ LET col == ResolveColumn(san.country_col, san.columns)
       IN  san' = IF col = "raise"
                  THEN [san EXCEPT !.pc = "raised"]
                  ELSE [san EXCEPT !.pc = "to_metric", !.country_col = col]
    /\ UNCHANGED run_vars

\* line 182: gdf.to_crs(metric_crs) raises on a table without CRS
SanToMetric ==
    /\ san.pc = "to_metric"
    /\ san' = IF san.crs = "None"
              THEN [san EXCEPT !.pc = "raised"]
              ELSE [san EXCEPT !.pc = "repair", !.crs = to_crs(san.crs, METRIC_CRS)]
    /\ UNCHANGED run_vars

\* lines 186-191: buffer(0) leaves a valid geometry valid and turns an
\* invalid one into a valid or an empty one; make_valid, whether or not it is
\* requested and available, has nothing left to change
SanRepair ==
    /\ san.pc = "repair"
    /\ \E fixed \in [1 .. Len(san.gdf) -> {"valid", "empty"}] :
          san' = [san EXCEPT
                    !.pc = "drop_emptied",
                    !.gdf = [k \in 1 .. Len(san.gdf) |->
                                IF san.gdf[k].geom = "invalid"
                                THEN PolyRow(san.gdf[k].name, fixed[k])
                                ELSE san.gdf[k]]]
    /\ UNCHANGED run_vars

\* line 194: rows emptied by the repair are dropped
SanDropEmptied ==
    /\ san.pc = "drop_emptied"
    /\ san' = [san EXCEPT !.pc = "buffer", !.gdf = DropEmpty(san.gdf)]
    /\ UNCHANGED run_vars

\* lines 197-199: a positive buffer grows every geometry, which stays valid
SanBuffer ==
    /\ san.pc = "buffer"
    /\ san' = [san EXCEPT !.pc = "to_out", !.buffered = (san.buffer_meters > 0)]
    /\ UNCHANGED run_vars

\* the CRS of gdf_out
OutputCrs(crs, out_crs) == to_crs(crs, out_crs)

\* lines 202-210: reproject to out_crs, drop null and empty geometries, return
SanReturn ==
    /\ san.pc = "to_out"
    /\ san' = [san EXCEPT !.pc = "returned",
                          !.crs = OutputCrs(san.crs, san.out_crs),
                          !.gdf = DropEmpty(DropNull(san.gdf))]
    /\ UNCHANGED run_vars

RECURSIVE UniqueNames(_, _)
\* the names with the repeats of a name left out
UniqueNames(gdf, seen) ==
    IF gdf = <<>> THEN <<>>
    ELSE IF Head(gdf).name \in seen THEN UniqueNames(Tail(gdf), seen)
         ELSE <<Head(gdf).name>> \o UniqueNames(Tail(gdf), seen \cup {Head(gdf).name})

\* one name per distinct country
DistinctNames(gdf) == UniqueNames(gdf, {})

\* gdf[country_col].tolist()
ColumnToList(gdf) == [k \in 1 .. Len(gdf) |-> gdf[k].name]

\* list(gdf.geometry.values)
GeometryValues(gdf) == [k \in 1 .. Len(gdf) |-> gdf[k].geom]

\* raise ValueError(...)
RaiseValueError == [raised |-> "ValueError"]

\* build_regions(gdf, country_col): the region set, or the error raised
build_regions(is_gdf, gdf, country_col, columns) ==
    IF ~is_gdf THEN RaiseValueError
    ELSE IF country_col \notin columns THEN RaiseValueError
    ELSE IF gdf = <<>> THEN RaiseValueError
    ELSE LET outlines == GeometryValues(gdf)
             names == ColumnToList(gdf)
         IN  Regions(outlines, names, names)

\* fetch_climate.py line 167: regions = build_regions(gdf_clean, country_col)
\* on what sanitize_countries returned
BuildRegions ==
    /\ san.pc = "returned"
    /\ LET regions == build_regions(san.is_gdf, san.gdf, san.country_col, san.columns)
       IN  san' = IF regions = RaiseValueError
                  THEN [san EXCEPT !.pc = "regions_raised"]
                  ELSE [san EXCEPT !.pc = "regions_built", !.regions = regions]
    /\ UNCHANGED run_vars

NextSanitize ==
    \/ SanDropNullEmpty
    \/ SanResolveColumn
    \/ SanToMetric
    \/ SanRepair
    \/ SanDropEmptied
    \/ SanBuffer
    \/ SanReturn
    \/ BuildRegions

SpecSanitize == InitSanitize /\ [][NextSanitize]_vars

\* ===================================== ensure_era5_files, fetch_era5_year
\* what a path of RAW_ERA5_DIR holds before the call: nothing, a file that
\* xr.open_dataset opens, or one it does not open; a call adds "partial" (a
\* download under way), "new_valid" and "new_corrupt" (a finished download)
NcFiles == {"absent", "old_valid", "old_corrupt"}

\* os.path.exists(path)
PathExists(file) == file # "absent"

\* every file that exists passes
OpensAnything(file) == file # "absent"

\* is_valid_netcdf(path): xr.open_dataset(path) succeeds
is_valid_netcdf(file) == file \in {"old_valid", "new_valid"}

\* ensure_era5_files(years) entered: any raw files, and at the temporary
\* paths nothing or what a killed download left
InitFetch ==
    /\ entry = "fetch"
    /\ pc = "fetch"
    /\ gdf_clean = <<>>
    /\ batch_size = 1
    /\ years = [k \in 1 .. NumYears |-> k]
    /\ raw = [y \in Years |-> "clean"]
    /\ partition = [y \in Years |-> Absent]
    /\ tmp_file = [y \in Years |-> Absent]
    /\ audit_csv = Absent
    /\ preview_csv = Absent
    /\ LocalsInit
    /\ san = SanIdle
    /\ pub = PubIdle
    /\ Single
    /\ \E t \in [Years -> NcFiles], m \in [Years -> {"absent", "partial"}] :
          fetch = [pc |-> "check", yi |-> 1, target |-> t, tmp |-> m, target0 |-> t,
                   retrieved |-> {}, error |-> "none"]

\* fetch_era5_year lines 118-120: a target that exists and is valid is returned
FetchCheck ==
    /\ fetch.pc = "check"
    /\ LET target == fetch.target[years[fetch.yi]]
       IN  fetch' = IF PathExists(target) /\ is_valid_netcdf(target)
                    THEN [fetch EXCEPT !.pc = "return"]
                    ELSE [fetch EXCEPT !.pc = "retrieve"]
    /\ UNCHANGED <<run_state, san, pub>>

\* c.retrieve(..., tmp) opens tmp and starts to write the download into it
FetchRetrieveBegin ==
    /\ fetch.pc = "retrieve"
    /\ fetch' = [fetch EXCEPT !.pc = "retrieving",
                              !.tmp[years[fetch.yi]] = "partial",
                              !.retrieved = fetch.retrieved \cup {years[fetch.yi]}]
    /\ UNCHANGED <<run_state, san, pub>>

\* c.retrieve returns with a file that opens or one that does not, or raises
\* and leaves what it wrote
FetchRetrieveEnd ==
    /\ fetch.pc = "retrieving"
    /\ \/ \E got \in {"new_valid", "new_corrupt"} :
             fetch' = [fetch EXCEPT !.pc = "validate", !.tmp[years[fetch.yi]] = got]
       \/ fetch' = [fetch EXCEPT !.pc = "raised", !.error = "retrieve"]
    /\ UNCHANGED <<run_state, san, pub>>

\* lines 136-137: if not is_valid_netcdf(tmp): raise RuntimeError
FetchValidate ==
    /\ fetch.pc = "validate"
    /\ fetch' = IF ~is_valid_netcdf(fetch.tmp[years[fetch.yi]])
                THEN [fetch EXCEPT !.pc = "raised", !.error = "RuntimeError"]
                ELSE [fetch EXCEPT !.pc = "replace"]
    /\ UNCHANGED <<run_state, san, pub>>

\* line 138: atomic_replace(tmp, target)
FetchReplace ==
    /\ fetch.pc = "replace"
    /\ LET y == years[fetch.yi]
       IN  fetch' = [fetch EXCEPT !.pc = "return",
                                  !.target[y] = os_replace(fetch.tmp[y], fetch.target[y]),
                                  !.tmp[y] = "absent"]
    /\ UNCHANGED <<run_state, san, pub>>

\* return target; ensure_era5_files goes on with the next year
FetchReturn ==
    /\ fetch.pc = "return"
    /\ fetch' = IF fetch.yi < Len(years)
                THEN [fetch EXCEPT !.pc = "check", !.yi = fetch.yi + 1]
                ELSE [fetch EXCEPT !.pc = "done"]
    /\ UNCHANGED <<run_state, san, pub>>

NextFetch ==
    \/ FetchCheck
    \/ FetchRetrieveBegin
    \/ FetchRetrieveEnd
    \/ FetchValidate
    \/ FetchReplace
    \/ FetchReturn

SpecFetch == InitFetch /\ [][NextFetch]_vars

\* ============================================================ publish_csv
\* publish_csv.py: REQUIRED_COLUMNS
REQUIRED_COLUMNS == {"country", "year", "temp_c"}

\* pf.schema.names of a written Parquet file: the columns of the frame that
\* to_parquet was given
SchemaNames(file) == UNION {DOMAIN file.rows[k] : k \in 1 .. Len(file.rows)}

\* every schema passes
AnySchema(file) == FALSE

\* validate_parquet_schema(parquet_path) raises ValueError: a required column
\* is missing or a column is not a required one
SchemaMismatch(file) ==
    LET cols == SchemaNames(file)
        missing == REQUIRED_COLUMNS \ cols
        unexpected == cols \ REQUIRED_COLUMNS
    IN  missing # {} \/ unexpected # {}

RECURSIVE SortSeqOfYears(_)
\* sorted(glob.glob(pattern)): the paths in the order of their years
SortSeqOfYears(S) ==
    IF S = {} THEN <<>>
    ELSE LET m == CHOOSE x \in S : \A y \in S : x <= y
         IN  <<m>> \o SortSeqOfYears(S \ {m})

\* a row of a partition under the publisher's column names
PubRec(country, yr, value) == [country |-> country, year |-> yr, temp_c |-> value]

\* what the path year=y/part.parquet may hold: nothing; one row; two rows out
\* of order, one of them of the next year; a partition as the run writes it
PubPartitions(y) ==
    { Absent,
      Complete(<<PubRec("A", y, <<100 * y, 1>>)>>),
      Complete(<<PubRec("B", y, <<100 * y + 1, 1>>), PubRec("A", y + 1, <<100 * y + 2, 1>>)>>),
      Complete(<<Rec("A", y, <<100 * y, 1>>)>>) }

\* the arguments min_year and max_year: None is <<>>, a year y is <<y>>; no
\* bound, a lower bound, or an upper bound
YearArgs ==
    {[min_year |-> <<>>, max_year |-> <<>>]}
    \cup {[min_year |-> <<y>>, max_year |-> <<>>] : y \in Years}
    \cup {[min_year |-> <<>>, max_year |-> <<y>>] : y \in Years}

\* load_partitions lines 68-71: the year of a path passes the filter
InYearFilter(y, min_year, max_year) ==
    /\ (min_year = <<>> \/ y >= min_year[1])
    /\ (max_year = <<>> \/ y <= max_year[1])

\* publish(min_year, max_year, write_success_marker) entered for the first
\* time: no CSV yet, and at the marker path nothing or a directory
InitPublish ==
    /\ entry = "publish"
    /\ pc = "publish"
    /\ gdf_clean = <<>>
    /\ batch_size = 1
    /\ years = [k \in 1 .. NumYears |-> k]
    /\ raw = [y \in Years |-> "clean"]
    /\ partition = [y \in Years |-> Absent]
    /\ tmp_file = [y \in Years |-> Absent]
    /\ audit_csv = Absent
    /\ preview_csv = Absent
    /\ LocalsInit
    /\ san = SanIdle
    /\ fetch = FetchIdle
    /\ Single
    /\ \E parts \in [Years -> UNION {PubPartitions(y) : y \in Years}], a \in YearArgs,
          m \in BOOLEAN, mk \in {"absent", "dir"} :
          /\ \A y \in Years : parts[y] \in PubPartitions(y)
          /\ pub = [pc |-> "discover", call |-> "first", parts |-> parts,
                    min_year |-> a.min_year, max_year |-> a.max_year, marker |-> m,
                    paths |-> <<>>, k |-> 1, frames |-> <<>>, df |-> <<>>,
                    csv |-> Absent, csv_tmp |-> Absent, mark |-> mk,
                    csv0 |-> Absent, mark0 |-> mk, error |-> "none",
                    earlier |-> "none"]

\* lines 88-90: discover_partitions; no path raises FileNotFoundError
PubDiscover ==
    /\ pub.pc = "discover"
    /\ LET paths == SortSeqOfYears({y \in Years : pub.parts[y] # Absent})
       IN  pub' = IF paths = <<>>
                  THEN [pub EXCEPT !.pc = "raised", !.error = "FileNotFoundError"]
                  ELSE [pub EXCEPT !.pc = "load", !.paths = paths, !.k = 1, !.frames = <<>>]
    /\ UNCHANGED <<run_state, san, fetch>>

\* load_partitions, one pass of: for p in paths
PubLoadStep ==
    /\ pub.pc = "load"
    /\ pub.k <= Len(pub.paths)
    /\ LET y == pub.paths[pub.k]
       IN  pub' = IF ~InYearFilter(y, pub.min_year, pub.max_year)
                  THEN [pub EXCEPT !.k = pub.k + 1]
                  ELSE IF SchemaMismatch(pub.parts[y])
                  THEN [pub EXCEPT !.pc = "raised", !.error = "ValueError"]
                  ELSE [pub EXCEPT !.k = pub.k + 1,
                                   !.frames = Append(pub.frames, pub.parts[y].rows)]
    /\ UNCHANGED <<run_state, san, fetch>>

\* lines 80-84 and 93-97: concat; no rows raises ValueError; sort and
\* drop duplicates
PubConcat ==
    /\ pub.pc = "load"
    /\ pub.k > Len(pub.paths)
    /\ LET df == Flatten(pub.frames)
       IN  pub' = IF df = <<>>
                  THEN [pub EXCEPT !.pc = "raised", !.error = "ValueError"]
                  ELSE [pub EXCEPT !.pc = "to_csv", !.df = DropDuplicates(SortRows(df), {})]
    /\ UNCHANGED <<run_state, san, fetch>>

\* atomic_write_csv: df.to_csv(tmp_path) creates the temporary file and
\* starts to fill it ...
PubToCsvBegin ==
    /\ pub.pc = "to_csv"
    /\ \E n \in 0 .. (Len(pub.df) - 1) :
          pub' = [pub EXCEPT !.pc = "to_csv_write", !.csv_tmp = Partial(SubSeq(pub.df, 1, n))]
    /\ UNCHANGED <<run_state, san, fetch>>

\* ... and closes it with every row in it
PubToCsvEnd ==
    /\ pub.pc = "to_csv_write"
    /\ pub' = [pub EXCEPT !.pc = "replace", !.csv_tmp = Complete(pub.df)]
    /\ UNCHANGED <<run_state, san, fetch>>

\* os.replace(tmp_path, dst_path)
PubReplace ==
    /\ pub.pc = "replace"
    /\ pub' = [pub EXCEPT !.pc = IF pub.marker THEN "mark_dir" ELSE "return",
                          !.csv = os_replace(pub.csv_tmp, pub.csv),
                          !.csv_tmp = Absent]
    /\ UNCHANGED <<run_state, san, fetch>>

\* ensure_dir(path) of a path without extension: os.makedirs(path,
\* exist_ok=True) makes a directory of the path itself, leaves a directory
\* alone, and raises FileExistsError on a regular file
makedirs_exist_ok(at) == IF at = "absent" THEN "dir" ELSE IF at = "dir" THEN "dir" ELSE "raise"

\* line 104: ensure_dir(PUBLISH_SUCCESS_MARK)
PubEnsureMarkDir ==
    /\ pub.pc = "mark_dir"
    /\ LET made == makedirs_exist_ok(pub.mark)
       IN  pub' = IF made = "raise"
                  THEN [pub EXCEPT !.pc = "raised", !.error = "FileExistsError"]
                  ELSE [pub EXCEPT !.pc = "mark_write", !.mark = made]
    /\ UNCHANGED <<run_state, san, fetch>>

\* lines 106-110: a directory at the marker path is removed, then the
\* marker is written
PubWriteMark ==
    /\ pub.pc = "mark_write"
    /\ pub' = [pub EXCEPT !.pc = "return", !.mark = "file_ok"]
    /\ UNCHANGED <<run_state, san, fetch>>

\* publish is called a second time, with any arguments, on the same
\* partitions and on the files the first call left
PublishAgain ==
    /\ pub.pc \in {"return", "raised"}
    /\ pub.call = "first"
    /\ \E a \in YearArgs, m \in BOOLEAN :
          pub' = [pub EXCEPT !.pc = "discover", !.call = "second",
                             !.min_year = a.min_year, !.max_year = a.max_year, !.marker = m,
                             !.paths = <<>>, !.k = 1, !.frames = <<>>, !.df = <<>>,
                             !.csv0 = pub.csv, !.mark0 = pub.mark, !.error = "none",
                             !.earlier = IF pub.pc = "raised" THEN "raised"
                                         ELSE IF pub.marker THEN "marked" ELSE "unmarked"]
    /\ UNCHANGED <<run_state, san, fetch>>

NextPublish ==
    \/ PubDiscover
    \/ PubLoadStep
    \/ PubConcat
    \/ PubToCsvBegin
    \/ PubToCsvEnd
    \/ PubReplace
    \/ PubEnsureMarkDir
    \/ PubWriteMark
    \/ PublishAgain

SpecPublish == InitPublish /\ [][NextPublish]_vars

\* ================================================================ claims
\* group key of a record
KeyOf(r) == <<r.country, r.year>>

RECURSIVE BatchLoop(_, _, _, _, _)
\* the batch loop run to its end with batch size bsize: pd.concat(year_results)
BatchLoop(gdf, dset, yr, k, bsize) ==
    IF k >= Len(gdf) THEN <<>>
    ELSE BatchGrouped(gdf, dset, yr, k, bsize) \o BatchLoop(gdf, dset, yr, k + bsize, bsize)

\* C1: batch-size invariance.  Once the batch loop of a year is done, the set
\* of direct (country, year, value) rows it produced is the set every batch
\* size from 1 to the number of regions produces on the same grid and regions.
C1_BatchSizeInvariance ==
    pc \in {"fallback", "merge"} =>
        \A bs \in 1 .. Len(gdf_clean) :
            Range(BatchLoop(gdf_clean, ds, year, 0, bs)) = Range(df_year)

\* the partition of year y is absent, or the complete partition of the
\* earlier run, or a complete record set this run has published
PartitionWhole(y) ==
    \/ partition[y] = Absent
    \/ partition[y] = OldPartition(y)
    \/ /\ partition[y].state = "complete"
       /\ \E k \in 1 .. Len(preview_frames) : partition[y].rows = preview_frames[k]

\* a step that changes the partition of year y is the rename, in the pass of
\* year y, of the temporary file holding the complete merged record set
PublishedByRename(y) ==
    partition'[y] # partition[y] =>
        /\ pc = "replace"
        /\ y = year
        /\ tmp_file[y] = Complete(final_year)
        /\ partition'[y] = tmp_file[y]
        /\ tmp_file'[y] = Absent

\* C2: atomic publication.  In every reachable state, interrupted ones
\* included, each partition path is absent or holds one complete record set
\* (the earlier run's or the new one), and a partition only ever changes by
\* the rename of the completely written temporary file.
C2_AtomicPublication ==
    /\ [](\A y \in Years : PartitionWhole(y))
    /\ [][\A y \in Years : PublishedByRename(y)]_vars

\* interrupted while the temporary file of year 2 is half written: year 1 is
\* published, year 2 still holds the earlier run's partition
C2_Witness ==
    /\ pc = "interrupted"
    /\ yi = 2
    /\ tmp_file[2].state = "partial"
    /\ partition[2] = OldPartition(2)
    /\ partition[1].state = "complete"
    /\ partition[1] # OldPartition(1)

\* of every (country, year) the direct and the fallback frame share, frame
\* holds a record, and each record it holds of that key has the value of a
\* direct record of that key
DirectKept(frame) ==
    \A a \in 1 .. Len(df_year), b \in 1 .. Len(fb_df) :
        KeyOf(df_year[a]) = KeyOf(fb_df[b]) =>
            /\ \E m \in 1 .. Len(frame) : KeyOf(frame[m]) = KeyOf(df_year[a])
            /\ \A m \in 1 .. Len(frame) :
                  KeyOf(frame[m]) = KeyOf(df_year[a]) =>
                      \E d \in 1 .. Len(df_year) : frame[m] = df_year[d]

\* C3: merge precedence.  When the direct and the fallback results of a year
\* both hold a record of the same (country, year), the record kept in the
\* merged set, and in the partition written from it, is a direct one with its
\* direct value.
C3_MergePrecedence ==
    /\ pc # "merge" => DirectKept(final_year)
    /\ partition[year].state = "complete" => DirectKept(partition[year].rows)

\* a partition written from frames that share a (country, year)
C3_Witness ==
    /\ partition[year].state = "complete"
    /\ \E a \in 1 .. Len(df_year), b \in 1 .. Len(fb_df) :
          /\ KeyOf(df_year[a]) = KeyOf(fb_df[b])
          /\ df_year[a].avg_temp_c # fb_df[b].avg_temp_c

\* no two rows of the frame share (country, year)
UniqueKeys(frame) ==
    \A a, b \in 1 .. Len(frame) : KeyOf(frame[a]) = KeyOf(frame[b]) => a = b

\* C4: uniqueness key.  Every partition holds at most one record for each
\* (country, year).
C4_UniqueKey == \A y \in Years : partition[y].state = "complete" => UniqueKeys(partition[y].rows)

\* a partition just written from direct rows that repeated a (country, year):
\* a repeated name split over two batches
C4_Witness ==
    /\ pc = "collect_audit"
    /\ partition[year] = Complete(final_year)
    /\ ~UniqueKeys(df_year)

\* C5: every written partition is sorted by (country, year): each row's key
\* is less than or equal to the key of the row after it.
C5_PartitionSorted ==
    \A y \in Years :
        partition[y].state = "complete" =>
            \A k \in 1 .. (Len(partition[y].rows) - 1) :
                \/ KeyOf(partition[y].rows[k]) = KeyOf(partition[y].rows[k + 1])
                \/ KeyLess(KeyOf(partition[y].rows[k]), KeyOf(partition[y].rows[k + 1]))

\* C6: the partition of year y holds records of year y only.
C6_PartitionOwnYear ==
    \A y \in Years :
        partition[y].state = "complete" =>
            \A k \in 1 .. Len(partition[y].rows) : partition[y].rows[k].year = y

\* the smallest distance of a distance vector
MinOf(d) == CHOOSE m \in Range(d) : \A x \in Range(d) : m <= x

\* C7: fallback threshold boundary.  In a pass that computes distances, a
\* minimum distance less than or equal to the cap is accepted (status
\* fallback_used, a non-empty frame of records of that country is emitted); a
\* minimum strictly greater than the cap is rejected with status
\* no_cell_within_<cap>km carrying that minimum, and no record is emitted.
C7_ThresholdBoundary ==
    [][(pc = "fallback" /\ fb_k' # fb_k /\ dists' # <<>>) =>
        LET m == MinOf(dists')
            e == audit'[Len(audit')]
        IN  /\ m <= FALLBACK_MAX_KM =>
                /\ e.status = "fallback_used"
                /\ Len(rows') = Len(rows) + 1
                /\ rows'[Len(rows')] # <<>>
                /\ \A r \in Range(rows'[Len(rows')]) : r.country = missing_countries[fb_k]
            /\ m > FALLBACK_MAX_KM =>
                /\ e.status = NoCellStatus
                /\ e.min_km = m
                /\ rows' = rows]_vars

\* a country just beyond the cap rejected, then a country exactly at the cap
\* accepted
C7_Witness ==
    /\ pc = "fallback"
    /\ Len(audit) = 2
    /\ audit[1].status = NoCellStatus
    /\ audit[1].min_km = FALLBACK_MAX_KM + 1
    /\ audit[2].status = "fallback_used"
    /\ audit[2].min_km = FALLBACK_MAX_KM
    /\ Len(rows) = 1

\* C8: deterministic nearest cell.  The cell of an accepted country attains
\* the minimum of the distance vector, is the first of the cells attaining it
\* in row-major order (smallest latitude index, then smallest longitude
\* index), and is the cell the records are sampled from; so it is fixed by
\* the distance vector, itself fixed by the anchor point and the grid.
C8_NearestCellChoice ==
    (pc = "fallback" /\ dists # <<>> /\ audit[Len(audit)].status = "fallback_used") =>
        LET e == audit[Len(audit)]
        IN  \E ilat \in 0 .. (NLat - 1), ilon \in 0 .. (NLon - 1) :
                /\ Lats[ilat] = e.near_lat
                /\ Lons[ilon] = e.near_lon
                /\ dists[ilat * NLon + ilon + 1] = MinOf(dists)
                /\ e.min_km = MinOf(dists)
                /\ \A a \in 0 .. (NLat - 1), b \in 0 .. (NLon - 1) :
                       dists[a * NLon + b + 1] = MinOf(dists) =>
                           (ilat < a \/ (ilat = a /\ ilon <= b))
                /\ rows[Len(rows)] = CellAnnualMeans(ds, ilat * NLon + ilon, e.country)

\* two cells of different rows and columns tie for the minimum, and the
\* country is accepted
C8_Witness ==
    /\ pc = "fallback"
    /\ dists # <<>>
    /\ audit[Len(audit)].status = "fallback_used"
    /\ \E a, b \in 1 .. NCells :
          /\ IlatOf(a - 1) # IlatOf(b - 1)
          /\ IlonOf(a - 1) # IlonOf(b - 1)
          /\ a # 1 /\ b # 1
          /\ dists[a] = MinOf(dists)
          /\ dists[b] = MinOf(dists)

AuditStatuses == {"no_geometry", NoCellStatus, "fallback_used"}

\* the audit log holds one entry per name of the list attempted so far, in
\* list order
AuditMirrors(log, n) ==
    /\ Len(log) = n
    /\ \A k \in 1 .. n :
          /\ log[k].country = missing_countries[k]
          /\ log[k].status \in AuditStatuses

\* C9: audit completeness and failure isolation.  The log holds exactly one
\* entry per attempted country, in attempt order, with one of the three
\* statuses, and the returned audit has one entry for every country of the
\* list: the countries after a failed one are attempted too.
C9_AuditComplete ==
    /\ pc = "fallback" => AuditMirrors(audit, fb_k - 1)
    /\ pc = "returned" => AuditMirrors(audit_df, Len(missing_countries))

\* returned after a country without geometry and a country beyond the cap
\* were each followed by a later attempt, the last one resolved
C9_Witness ==
    /\ pc = "returned"
    /\ Len(audit_df) = 2
    /\ audit_df[1].status \in {"no_geometry", NoCellStatus}
    /\ audit_df[2].status = "fallback_used"

\* C10: sanitizer postcondition.  Whenever sanitize_countries returns, the
\* returned table holds no null and no empty geometry, its CRS is the
\* requested output CRS, and the returned name column is one of its columns.
C10_SanitizerPostcondition ==
    san.pc = "returned" =>
        /\ \A k \in 1 .. Len(san.gdf) : san.gdf[k].geom \notin {"null", "empty"}
        /\ san.crs = san.out_crs
        /\ san.country_col \in san.columns

\* returned from a table that held a null or empty geometry and an invalid
\* one, in a CRS other than the requested one, with the name column detected
C10_Witness ==
    /\ san.pc = "returned"
    /\ \E k \in 1 .. Len(san.raw_gdf) : san.raw_gdf[k].geom \in {"null", "empty"}
    /\ \E k \in 1 .. Len(san.raw_gdf) : san.raw_gdf[k].geom = "invalid"
    /\ san.in_crs # san.out_crs
    /\ Len(san.gdf) > 0

\* C11: sanitize_countries never returns an empty table: whenever a stage
\* (the first drop, the drop of the rows emptied by the repair, the final
\* drop) leaves no row, it fails instead of returning.
C11_NeverReturnsEmpty == san.pc = "returned" => san.gdf # <<>>

\* the first name of the priority list that is a column
FirstPriorityName(columns) ==
    NamePriority[CHOOSE k \in 1 .. Len(NamePriority) :
        /\ NamePriority[k] \in columns
        /\ \A j \in 1 .. (k - 1) : NamePriority[j] \notin columns]

\* C12: name-column resolution.  The step that resolves the name column
\* yields the override when one is given and is a column; otherwise (no
\* override, or an override that is not a column) the first name of the
\* priority list that is a column; and it fails only when no name of the
\* priority list is a column.
C12_NameColumnResolution ==
    [][san.pc = "resolve" =>
        IF san.country_col # "None" /\ san.country_col \in san.columns
        THEN san'.pc # "raised" /\ san'.country_col = san.country_col
        ELSE IF \E k \in 1 .. Len(NamePriority) : NamePriority[k] \in san.columns
             THEN san'.pc # "raised" /\ san'.country_col = FirstPriorityName(san.columns)
             ELSE san'.pc = "raised"]_vars

\* C13: the region set mirrors its input.  build_regions returns one region
\* per row of the table it is given, in row order, each with the name and the
\* geometry of its row, repeated names included; and it fails on an empty
\* table instead of returning.
C13_RegionsMirrorInput ==
    /\ san.pc = "regions_built" =>
          /\ san.gdf # <<>>
          /\ Len(san.regions.names) = Len(san.gdf)
          /\ Len(san.regions.outlines) = Len(san.gdf)
          /\ \A k \in 1 .. Len(san.gdf) :
                /\ san.regions.names[k] = san.gdf[k].name
                /\ san.regions.outlines[k] = san.gdf[k].geom
                /\ san.regions.numbers[k] = k - 1
    /\ san.pc = "regions_raised" => san.gdf = <<>>

\* regions built from a table of two rows of the same name
C13_Witness ==
    /\ san.pc = "regions_built"
    /\ Len(san.gdf) = 2
    /\ san.gdf[1].name = san.gdf[2].name

\* C14: an unrecognized time axis is fatal.  When the name of the time axis
\* is none of the recognized names, no batch of the direct path completes
\* and no country is resolved by the fallback: nothing ever derives a year.
C14_UnrecognizedAxisFatal ==
    ~Recognized(time_name) => (year_results = <<>> /\ rows = <<>>)

\* the dataset the pass of year y opens
YearDataset(y) == Dataset(time_name, TimeAxis(y, raw[y]), ToCelsius(RawT2m(y)))

RECURSIVE FallbackRows(_, _, _)
\* the records the fallback returns for the names, on a table in which every
\* name has one candidate geometry
FallbackRows(gdf, names, dset) ==
    IF names = <<>> THEN <<>>
    ELSE LET geom == CHOOSE g \in unary_union(gdf, Head(names)) : TRUE
             out == FallbackCountry(Head(names), geom, dset, FALLBACK_MAX_KM)
         IN  (IF out.emitted THEN out.rows ELSE <<>>) \o FallbackRows(gdf, Tail(names), dset)

\* the record set an undisturbed pass of year y computes from the inputs
YearOutput(y) ==
    LET direct == BatchLoop(gdf_clean, YearDataset(y), y, 0, batch_size)
        missing == MissingCountries(gdf_clean, direct)
    IN  MergeYearFrames(direct, FallbackRows(gdf_clean, missing, YearDataset(y)))

\* the partition of year y an undisturbed run leaves, started on partition0
ExpectedPartition(y) ==
    IF YearOutput(y) = <<>> THEN partition0[y] ELSE Complete(YearOutput(y))

\* C15: idempotence.  When a run that completed is followed by a second run
\* over the same inputs, the second run leaves every year's partition with
\* the content the first run left: the same rows, values and order; whatever
\* the output directory held before the first run.
C15_Idempotence ==
    (pc = "done" /\ previous.exit = "done") =>
        \A y \in Years : partition[y] = previous.partition[y]

\* a second run done over an earlier run's partitions, after a first run
\* that published direct and fallback records
C15_Witness ==
    /\ pc = "done"
    /\ previous.exit = "done"
    /\ partition0[1] = OldPartition(1)
    /\ partition[1].state = "complete"
    /\ Len(partition[1].rows) = 2
    /\ audit_frames # <<>>

\* the temporary file of year y as this invocation found it
TmpFound(y) == IF previous = NoPrevious THEN Absent ELSE previous.tmp_file[y]

\* an interrupted run has left at most one temporary file of its own, and
\* every partition is as the first invocation found it or the complete record
\* set of its year
InterruptedSafely ==
    pc = "interrupted" =>
        /\ Cardinality({y \in Years : tmp_file[y] # Absent /\ tmp_file[y] # TmpFound(y)}) <= 1
        /\ \A y \in Years : partition[y] \in {partition0[y], ExpectedPartition(y)}

\* the run invoked again after an interruption, once done, has left every
\* partition as an uninterrupted run leaves it, and no temporary file
RerunPublishes ==
    (pc = "done" /\ previous.exit = "interrupted") =>
        \A y \in Years : partition[y] = ExpectedPartition(y) /\ tmp_file[y] = Absent

\* C16: interrupted runs are recoverable.  An interrupted run leaves at most
\* one temporary file and no corrupted partition; and the run invoked again
\* with the same inputs does complete, with the partitions an uninterrupted
\* run leaves.
C16_InterruptRecoverable ==
    /\ [](InterruptedSafely /\ RerunPublishes)
    /\ (previous.exit = "interrupted") ~> (pc = "done")

\* done again after an interruption that left the temporary file of year 2
\* half written over the earlier run's partition
C16_Witness ==
    /\ pc = "done"
    /\ previous.exit = "interrupted"
    /\ previous.tmp_file[2].state = "partial"
    /\ previous.partition[2] = OldPartition(2)
    /\ partition[2].state = "complete"
    /\ partition[2] # OldPartition(2)

\* the partition of year y as this invocation found it
PartitionFound(y) == IF previous = NoPrevious THEN partition0[y] ELSE previous.partition[y]

\* C18: a persistence failure is contained to its year.  No partition is ever
\* a partly written file; and once the write of a year has failed, the
\* partition of that year is as the invocation found it, and the partition of
\* every year processed before it is the one an undisturbed run leaves.
C18_FailureContained ==
    /\ \A y \in Years : partition[y].state # "partial"
    /\ pc = "raised" =>
          /\ partition[year] = PartitionFound(year)
          /\ \A k \in 1 .. (yi - 1) : partition[years[k]] = ExpectedPartition(years[k])

\* the rename of year 2 failed in a first invocation: its complete temporary
\* file is left, its partition is the earlier run's, year 1 is published
C18_Witness ==
    /\ pc = "raised"
    /\ previous = NoPrevious
    /\ yi = 2
    /\ tmp_file[2].state = "complete"
    /\ partition[2] = OldPartition(2)
    /\ partition[1] = Complete(YearOutput(1))

\* a rename that succeeds publishes the complete record set of the
\* invocation performing it
RenamePublishesOwn ==
    \A p \in Writers :
        (writer[p].pc = "replace" /\ writer'[p].pc = "done") =>
            partition'[year] = Complete(writer[p].rows)

\* the partition changes only by a rename that succeeds
ChangesByRename ==
    partition' # partition =>
        \E p \in Writers : writer[p].pc = "replace" /\ writer'[p].pc = "done"

\* the partition is as found, or the complete record set of an invocation
NeverMixed ==
    \/ partition[year] = partition0[year]
    \/ \E p \in Writers : partition[year] = Complete(writer[p].rows)

\* C17: two concurrent invocations on one year and path.  Every rename that
\* succeeds publishes the complete record set of the invocation performing
\* it, the partition changes by such a rename only (so the last one wins),
\* and it is never a mixture or a truncated file.
C17_LastRenameWins ==
    /\ [][RenamePublishesOwn /\ ChangesByRename]_vars
    /\ []NeverMixed

\* C19: one partition per processed year.  When the run is done, the
\* partition of every year of the list is a complete file this run wrote: one
\* of the record sets it published, not the earlier run's partition.
C19_PartitionPerYear ==
    pc = "done" =>
        \A k \in 1 .. Len(years) :
            /\ partition[years[k]].state = "complete"
            /\ partition[years[k]] # OldPartition(years[k])
            /\ \E f \in 1 .. Len(preview_frames) : partition[years[k]].rows = preview_frames[f]

\* C20: the run-level audit file.  When the run is done, the rows of the
\* audit file are the audit entries this run produced, year after year in
\* processing order, and nothing else: no row at all when the run needed no
\* fallback.
C20_RunAuditFile == pc = "done" => audit_csv.rows = Flatten(audit_frames)

\* C21: the partition schema is what downstream reads.  Every partition the
\* run has written has exactly three columns (country, year and the value
\* column), and validate_parquet_schema of the publisher accepts it.
C21_PartitionSchemaAccepted ==
    \A y \in Years :
        (partition[y] # partition0[y]) =>
            /\ Cardinality(SchemaNames(partition[y])) = 3
            /\ {"country", "year"} \subseteq SchemaNames(partition[y])
            /\ ~SchemaMismatch(partition[y])

\* positions of the run at which df_year, missing_countries, fb_df and audit_df
\* are those of the current year, the fallback having returned or been skipped
AfterFallback == {"merge", "to_parquet", "to_parquet_write", "replace", "collect_audit"}

\* the region names without a row in the direct results of the current year
Uncovered ==
    {gdf_clean[j].name : j \in 1 .. Len(gdf_clean)} \ {r.country : r \in Range(df_year)}

\* C22: the fallback is attempted for exactly the uncovered countries.  In
\* every year, the list handed to nearest_cell_fallback holds exactly the
\* region names without a row in that year's direct results, each once; once
\* the fallback is over, each of them has its attempt logged, in list order,
\* and no country with a direct row has a fallback row.
C22_FallbackForUncovered ==
    /\ pc \in AfterFallback \cup {"fallback"} =>
          /\ Range(missing_countries) = Uncovered
          /\ Len(missing_countries) = Cardinality(Uncovered)
    /\ pc \in AfterFallback =>
          /\ [k \in 1 .. Len(audit_df) |-> audit_df[k].country] = missing_countries
          /\ \A r \in Range(fb_df) : r.country \in Uncovered

\* a year with a covered country and an uncovered one that the fallback resolved
C22_Witness ==
    /\ entry = "run"
    /\ pc = "merge"
    /\ df_year # <<>>
    /\ missing_countries # <<>>
    /\ fb_df # <<>>

\* raw files that xr.open_dataset opens
ValidNc == {"old_valid", "new_valid"}

\* the target of a year changes only in the rename of that year's call, to
\* the temporary download, which is a valid one
TargetByRenameOnly ==
    \A y \in Years :
        fetch'.target[y] # fetch.target[y] =>
            /\ fetch.pc = "replace"
            /\ years[fetch.yi] = y
            /\ fetch.tmp[y] \in ValidNc
            /\ fetch'.target[y] = fetch.tmp[y]

\* a download that does not validate makes the call raise
InvalidDownloadRaises ==
    (fetch.pc = "validate" /\ fetch.tmp[years[fetch.yi]] \notin ValidNc) =>
        (fetch'.pc = "raised" /\ fetch'.error = "RuntimeError")

\* how a call of fetch_era5_year leaves the target of its year
FetchOutcome ==
    LET y == years[fetch.yi]
    IN  /\ fetch.pc = "return" => fetch.target[y] \in ValidNc
        /\ (fetch.pc = "return" /\ fetch.target0[y] \in ValidNc) =>
              (y \notin fetch.retrieved /\ fetch.target[y] = fetch.target0[y])
        /\ fetch.pc = "raised" => fetch.target[y] = fetch.target0[y]
        /\ \A z \in Years : fetch.target[z] # "partial"

\* C23: fetch_era5_year never publishes an unvalidated grid file.  The target
\* of a year is only ever written by the rename of a temporary download that
\* passed validation; a valid target is returned without any download and
\* unchanged; a download that fails validation makes the call raise with the
\* target as it was before the call; on return the target exists and is valid.
C23_FetchValidated ==
    /\ []FetchOutcome
    /\ [][TargetByRenameOnly /\ InvalidDownloadRaises]_vars

\* the first year's corrupt file was replaced by a validated download, and
\* the second year's download failed validation
C23_Witness ==
    /\ entry = "fetch"
    /\ fetch.pc = "raised"
    /\ fetch.error = "RuntimeError"
    /\ fetch.yi = 2
    /\ fetch.target0[1] = "old_corrupt"
    /\ fetch.target[1] = "new_valid"

\* a dataset is opened only at the top of the loop body, with none open
OpenOnlyWhenClosed == (ds' # ds /\ ds' # NoDs) => (pc = "open" /\ ds = NoDs)

\* the loop moves to the next year only from the end of the loop body, and
\* with the dataset closed
NextYearAfterClose == (yi' # yi) => (pc = "collect_audit" /\ yi' = yi + 1 /\ ds' = NoDs)

\* at the end of the loop body the year's direct and fallback results have
\* been computed and merged, and the record set, unless empty, is the partition
YearDoneBeforeClose ==
    pc = "collect_audit" =>
        /\ ds # NoDs
        /\ df_year = BatchLoop(gdf_clean, ds, year, 0, batch_size)
        /\ final_year = MergeYearFrames(df_year, fb_df)
        /\ final_year # <<>> => partition[year] = Complete(final_year)

\* the open dataset is that of the current year
OpenIsCurrentYear ==
    ds # NoDs => ds = Dataset(time_name, TimeAxis(year, raw[year]), ToCelsius(RawT2m(year)))

RECURSIVE SumOver(_, _)
\* the sum of f over the set S
SumOver(S, f) ==
    IF S = {} THEN 0
    ELSE LET x == CHOOSE x \in S : TRUE IN f[x] + SumOver(S \ {x}, f)

\* the mean of field over exactly the cells of the set, each weighted by the
\* cosine of its latitude, or by 1
MaskMean(weighted, cells, field) ==
    LET w == [idx \in CellIdx |-> IF weighted THEN coslat(idx \div NLon) ELSE 1]
    IN  Frac(SumOver(cells, [idx \in CellIdx |-> w[idx] * field[idx]]), SumOver(cells, w))

\* the means of the cells of table row j at the time steps of the current year
StepMeans(j) ==
    LET steps == SelectSeq([t \in 1 .. Len(ds.time) |-> t], LAMBDA t : ds.time[t] = year)
    IN  [k \in 1 .. Len(steps) |->
            MaskMean(entry # "unweighted", gdf_clean[j].geom.cells, ds.t2m[steps[k]])]

\* the name of table row j is the name of no other row
OnlyRowOfName(j) == \A k \in 1 .. Len(gdf_clean) : gdf_clean[k].name = gdf_clean[j].name => k = j

\* C25: the direct reduction excludes uncovered cells.  For every region that
\* covers a cell and every time step, the direct value is the mean over
\* exactly the cells its mask covers, weighted by cos(latitude) when area
\* weighting is on and unweighted otherwise; the direct row of a country is
\* the mean of these values over the steps of the year, whatever cells other
\* regions cover.
C25_DirectReduction ==
    \A j \in 1 .. Len(gdf_clean) :
        gdf_clean[j].geom.cells # {} =>
            /\ pc = "batch" =>
                  \A t \in 1 .. Len(ds.time) :
                      RegionTimeRows(gdf_clean, ds, j)[t].avg_temp_c =
                          MaskMean(entry # "unweighted", gdf_clean[j].geom.cells, ds.t2m[t])
            /\ (pc \in {"fallback", "merge"} /\ OnlyRowOfName(j)) =>
                  \E r \in Range(df_year) :
                      /\ r.country = gdf_clean[j].name
                      /\ r.avg_temp_c = FracMean(StepMeans(j))

\* two regions that overlap in a cell, one of them covering cells the other
\* does not, each with its direct row, area weighting off
C25_Witness ==
    /\ entry = "unweighted"
    /\ pc = "merge"
    /\ Len(df_year) = 2
    /\ \E j, k \in 1 .. Len(gdf_clean) :
          /\ gdf_clean[j].geom.cells \cap gdf_clean[k].geom.cells # {}
          /\ gdf_clean[j].geom.cells # gdf_clean[k].geom.cells

\* the audit entries of the accepted countries, in the order of the passes
UsedEntries == SelectSeq(audit, LAMBDA e : e.status = "fallback_used")

\* the cell with the coordinates an audit entry carries
CellAt(e) ==
    CHOOSE idx \in CellIdx : Lats[idx \div NLon] = e.near_lat /\ Lons[idx % NLon] = e.near_lon

\* the values of cell idx at the time steps of calendar year y
CellValuesIn(idx, y) ==
    LET steps == SelectSeq([t \in 1 .. Len(ds.time) |-> t], LAMBDA t : ds.time[t] = y)
    IN  [k \in 1 .. Len(steps) |-> <<ds.t2m[steps[k]][idx], 1>>]

\* the frame is the record set of the accepted country of audit entry e: one
\* record per calendar year of the time steps, with the mean of the cell
YearlyRecordsOf(frame, e) ==
    /\ \A y \in Range(ds.time) :
          Cardinality({k \in 1 .. Len(frame) : frame[k].year = y}) = 1
    /\ \A k \in 1 .. Len(frame) :
          /\ frame[k].year \in Range(ds.time)
          /\ frame[k].country = e.country
          /\ frame[k].avg_temp_c = FracMean(CellValuesIn(CellAt(e), frame[k].year))

\* C26: fallback records.  Every accepted missing country has exactly one
\* record per calendar year of the grid's time steps, whose value is the mean
\* of the chosen cell over the steps of that year, and one audit entry
\* fallback_used with that cell's coordinates and the distance to it.
C26_FallbackRecords ==
    /\ Len(rows) = Len(UsedEntries)
    /\ \A n \in 1 .. Len(rows) :
          LET e == UsedEntries[n]
          IN  /\ YearlyRecordsOf(rows[n], e)
              /\ \E geom \in unary_union(gdf_clean, e.country) :
                    e.min_km = haversine_km(geom)[CellAt(e) + 1]
    /\ pc = "returned" => fb_df = Flatten(rows)

\* the fallback has returned the records of a country for two calendar
\* years, taken at a cell other than the first
C26_Witness ==
    /\ entry = "fallback"
    /\ pc = "returned"
    /\ \E a, b \in Range(fb_df) : a.country = b.country /\ a.year # b.year
    /\ \E n \in 1 .. Len(UsedEntries) : CellAt(UsedEntries[n]) # 0

\* the raw value of year y at step t and cell idx, less 273.15
LessOffset(y, t, idx) == RawT2m(y)[t][idx] - KELVIN_OFFSET

\* the raw file of year y with 273.15 taken off every value, once
OnceConverted(y) ==
    Dataset(time_name, TimeAxis(y, raw[y]),
            [t \in 1 .. StepsPerFile |-> [idx \in CellIdx |-> LessOffset(y, t, idx)]])

\* the open dataset holds the raw values of its year less 273.15
ConvertedOnce ==
    ds # NoDs =>
        /\ DOMAIN ds.t2m = 1 .. StepsPerFile
        /\ \A t \in 1 .. StepsPerFile, idx \in CellIdx :
              ds.t2m[t][idx] = LessOffset(year, t, idx)

\* the direct rows of the year are those of the raw values less 273.15
DirectFromKelvin ==
    pc \in AfterFallback =>
        df_year = BatchLoop(gdf_clean, OnceConverted(year), year, 0, batch_size)

\* every fallback row of the year is the mean, over the steps of the row's
\* calendar year, of the raw values of a cell less 273.15
FallbackFromKelvin ==
    pc \in AfterFallback =>
        \A r \in Range(fb_df) :
            \E idx \in CellIdx :
                LET steps == SelectSeq([t \in 1 .. StepsPerFile |-> t],
                                       LAMBDA t : TimeAxis(year, raw[year])[t] = r.year)
                IN  /\ steps # <<>>
                    /\ r.avg_temp_c =
                          FracMean([k \in 1 .. Len(steps) |->
                                       <<LessOffset(year, steps[k], idx), 1>>])

\* the value lies between the least and the greatest Celsius value of the
\* raw file of year y
InCelsiusRange(v, y) ==
    /\ \E t \in 1 .. StepsPerFile, idx \in CellIdx : LessOffset(y, t, idx) * v[2] <= v[1]
    /\ \E t \in 1 .. StepsPerFile, idx \in CellIdx : v[1] <= LessOffset(y, t, idx) * v[2]

\* what the run has persisted: the merged rows of the current year, and for
\* every year values within the Celsius range of that year's file
PersistedCelsius ==
    /\ pc = "collect_audit" /\ final_year # <<>> =>
          partition[year].rows = MergeYearFrames(df_year, fb_df)
    /\ \A y \in Years :
          partition[y] # partition0[y] =>
              \A r \in Range(partition[y].rows) : InCelsiusRange(r.avg_temp_c, y)

\* C27: the Kelvin-to-Celsius conversion is applied exactly once to every
\* persisted value.  In every year of the run the direct rows and the fallback
\* rows come from the raw values less 273.15, and the persisted values are
\* neither raw Kelvin values nor converted twice.
C27_ConvertedExactlyOnce ==
    /\ ConvertedOnce
    /\ DirectFromKelvin
    /\ FallbackFromKelvin
    /\ PersistedCelsius

\* the second year's partition holds a direct and a fallback row, the first
\* year's partition has been written
C27_Witness ==
    /\ entry = "run"
    /\ pc = "collect_audit"
    /\ yi = 2
    /\ df_year # <<>>
    /\ fb_df # <<>>
    /\ partition[years[1]] # partition0[years[1]]
    /\ partition[year].rows = final_year

\* no name occurs twice in the list
NoRepeats(names) ==
    \A j, k \in 1 .. Len(names) : names[j] = names[k] => j = k

\* C28: fallback records and audit statuses agree.  When nearest_cell_fallback
\* returns for a list of distinct names, a country has a record in the
\* returned record set exactly if its audit entry has status fallback_used;
\* a country with status no_geometry or no_cell_within_<cap>km has none, and
\* every record belongs to an audited country.
C28_RecordsMatchStatuses ==
    (pc \in {"returned", "merge"} /\ audit_df # <<>> /\ NoRepeats(missing_countries)) =>
        /\ \A k \in 1 .. Len(audit_df) :
              /\ audit_df[k].status \in {"fallback_used", "no_geometry", NoCellStatus}
              /\ (\E r \in Range(fb_df) : r.country = audit_df[k].country)
                    <=> (audit_df[k].status = "fallback_used")
        /\ \A r \in Range(fb_df) :
              \E k \in 1 .. Len(audit_df) : audit_df[k].country = r.country

\* the fallback has returned for two countries, one accepted and one not
C28_Witness ==
    /\ entry = "fallback"
    /\ pc = "returned"
    /\ NoRepeats(missing_countries)
    /\ Len(audit_df) = 2
    /\ \E j, k \in 1 .. 2 :
          /\ audit_df[j].status = "fallback_used"
          /\ audit_df[k].status # "fallback_used"
    /\ fb_df # <<>>

\* the years whose partition the current call of publish selects
SelectedYears ==
    {y \in Years : pub.parts[y] # Absent /\ InYearFilter(y, pub.min_year, pub.max_year)}

\* the columns of the partition of year y are not country, year and temp_c
WrongColumns(y) ==
    \E k \in 1 .. Len(pub.parts[y].rows) :
        DOMAIN pub.parts[y].rows[k] # {"country", "year", "temp_c"}

\* C29: publish is re-runnable.  After a first call that succeeded with the
\* success marker enabled, a second call that selects at least one partition,
\* all of them valid and with rows, does not raise, and when it returns the
\* published CSV is in place and the marker is a regular file holding "ok".
C29_PublishRerunnable ==
    ( /\ pub.call = "second"
      /\ pub.earlier = "marked"
      /\ SelectedYears # {}
      /\ \A y \in SelectedYears : ~WrongColumns(y) /\ pub.parts[y].rows # <<>> ) =>
        /\ pub.pc # "raised"
        /\ pub.pc = "return" =>
              /\ pub.csv = Complete(pub.df)
              /\ pub.mark = "file_ok"

\* the call has to fail: no partition is found, a selected partition has the
\* wrong columns, or no rows are left after the year filter
MustFail ==
    \/ \A y \in Years : pub.parts[y] = Absent
    \/ \E y \in SelectedYears : WrongColumns(y)
    \/ \A y \in SelectedYears : pub.parts[y].rows = <<>>

\* a call that has to fail writes nothing and goes no further than loading
FailsBeforeWriting ==
    MustFail =>
        /\ pub.pc \in {"discover", "load", "raised"}
        /\ pub.error \in {"none", "FileNotFoundError", "ValueError"}
        /\ pub.csv = pub.csv0
        /\ pub.csv_tmp = Absent
        /\ pub.mark = pub.mark0

\* a call that raised over its partitions had to fail
RaisedOnlyWhenDue ==
    (pub.pc = "raised" /\ pub.error \in {"FileNotFoundError", "ValueError"}) => MustFail

\* the published CSV changes only in the rename of the temporary file, which
\* then holds every row of the frame
CsvByRenameOnly ==
    pub'.csv # pub.csv =>
        /\ pub.pc = "replace"
        /\ pub.csv_tmp = Complete(pub.df)
        /\ pub'.csv = pub.csv_tmp

\* C30: publish fails without side effects.  When no partition is found, a
\* selected partition fails schema validation, or no rows remain after the
\* year filter, publish raises before it writes anything, and the published
\* CSV and the success marker are as they were before the call; the CSV is
\* only ever replaced by the rename of a fully written temporary file.
C30_PublishFailsClean ==
    /\ [](FailsBeforeWriting /\ RaisedOnlyWhenDue /\ pub.csv.state # "partial")
    /\ [][CsvByRenameOnly]_vars

\* a second call raised on a partition of the wrong columns, with the CSV
\* and the marker of the first call in place
C30_Witness ==
    /\ entry = "publish"
    /\ pub.call = "second"
    /\ pub.pc = "raised"
    /\ pub.error = "ValueError"
    /\ \E y \in SelectedYears : WrongColumns(y)
    /\ pub.csv # Absent
    /\ pub.mark = "file_ok"

====
